---- MODULE Spec2Model ----
(***************************************************************************)
(* Token-bucket rate limiter of the api-gateway                            *)
(* (services/api-gateway/src/rate-limiter.ts).                             *)
(*                                                                         *)
(* Numbers.  The limiter computes with floating point tokens and seconds.  *)
(* Here time is counted in whole seconds and a token amount is an integer  *)
(* number of quanta, TokenUnit quanta to one token, so that the refill     *)
(* elapsed * refillRate and the threshold "tokens >= 1" are exact.  A      *)
(* RateLimitConfig carries maxTokens and refillRate in quanta (per second) *)
(* and windowSeconds in seconds.                                           *)
(*                                                                         *)
(* An optional value (retryAfterSeconds?: number, a header that may be     *)
(* unset, config.perUser?) is a set with no or one element.                *)
(***************************************************************************)
EXTENDS Integers, Sequences, FiniteSets, TLC

VARIABLES
    registry,   \* DEFAULT_RATE_LIMITS: the route registry the module holds
    metrics,    \* the Prometheus counters and histogram of the module
    clock,      \* true time in seconds (the time of the Redis server)
    store,      \* Redis: key -> [tokens, lastRefill, expireAt]; absent keys do not exist
    config,     \* the RateLimitConfig the direct callers of consume pass
    calls,      \* per caller: the invocation of TokenBucket.consume it is in
    log,        \* history: the store round-trips in the order Redis ran them
    reqs        \* per request handler: the middleware invocation it is in

vars == <<registry, metrics, clock, store, config, calls, log, reqs>>

---------------------------------------------------------------------------
\* Bounds of the model.

\* quanta per token (fixed-point resolution of a token amount)
TokenUnit == 2
\* the clock stops here
MaxClock == 4
\* concurrent direct callers of consume
NumCallers == 3
\* concurrent request handlers
NumHandlers == 2
\* store round-trips after which the serial client sends nothing more
MaxEvals == 22

Callers == 1..NumCallers

Handlers == 1..NumHandlers

\* offsets of a caller's Date.now() from the true time (gateway instances
\* whose clocks disagree, or a clock stepped back)
Skews == {-1, 0}

\* the configs direct callers pass: capacities of 1/2, 1, 3/2 and 2 tokens,
\* refill rates of 1/2 and 1 token per second, windows of 1 and 2 seconds
Half == TokenUnit \div 2

Configs ==
    [maxTokens : {Half, TokenUnit, TokenUnit + Half, 2 * TokenUnit},
     refillRate : {Half, TokenUnit},
     windowSeconds : {1, 2}]

Idents == {"test-user"}

---------------------------------------------------------------------------
\* Arithmetic of the script and of its caller.

Min(a, b) == IF a <= b THEN a ELSE b

\* math.ceil(n / d) for d > 0
Ceil(n, d) == -((-n) \div d)

\* Math.floor(n / d) for d > 0
Floor(n, d) == n \div d

\* A Lua number returned by a script becomes a Redis integer reply: the
\* fraction is dropped (truncation toward zero).  q is an amount in quanta.
LuaToInteger(q) == IF q >= 0 THEN q \div TokenUnit ELSE -((-q) \div TokenUnit)

---------------------------------------------------------------------------
\* TokenBucket.consume: the Lua script, run by Redis as one step.

NoBucket == [tokens |-> 0, lastRefill |-> 0, expireAt |-> -1]

Bucket(key) == IF key \in DOMAIN store THEN store[key] ELSE NoBucket

\* Refilled without the refill: the tokens stay what they were
RefilledNever(exists, bucket, cfg, now) ==
    IF exists THEN bucket.tokens ELSE cfg.maxTokens

\* Refilled without the cap at max_tokens
RefilledNoCap(exists, bucket, cfg, now) ==
    LET tokens      == IF exists THEN bucket.tokens ELSE cfg.maxTokens
        last_refill == IF exists THEN bucket.lastRefill ELSE now
    IN  tokens + (now - last_refill) * cfg.refillRate

\* tokens after the refill step (lines 120-129)
Refilled(exists, bucket, cfg, now) ==
    LET tokens      == IF exists THEN bucket.tokens ELSE cfg.maxTokens
        last_refill == IF exists THEN bucket.lastRefill ELSE now
        elapsed       == now - last_refill
        tokens_to_add == elapsed * cfg.refillRate
    IN  Min(cfg.maxTokens, tokens + tokens_to_add)

\* LuaScript with the lost update of a read-modify-write that is not one
\* step: the consumed token is not written back
LuaScriptLostUpdate(exists, bucket, cfg, now, serverTime) ==
    LET tokens  == Refilled(exists, bucket, cfg, now)
        allowed == tokens >= TokenUnit
        left    == IF allowed THEN tokens - TokenUnit ELSE tokens
        retry_after == IF allowed THEN 0 ELSE Ceil(TokenUnit - tokens, cfg.refillRate)
    IN  [bucket |-> [tokens |-> tokens, lastRefill |-> now,
                     expireAt |-> serverTime + cfg.windowSeconds],
         reply  |-> [allowed |-> IF allowed THEN 1 ELSE 0,
                     tokens |-> LuaToInteger(left),
                     retry_after |-> retry_after]]

\* LuaScript asking for more than one token: "tokens > 1"
LuaScriptStrict(exists, bucket, cfg, now, serverTime) ==
    LET tokens  == Refilled(exists, bucket, cfg, now)
        allowed == tokens > TokenUnit
        left    == IF allowed THEN tokens - TokenUnit ELSE tokens
        retry_after == IF allowed THEN 0 ELSE Ceil(TokenUnit - tokens, cfg.refillRate)
    IN  [bucket |-> [tokens |-> left, lastRefill |-> now,
                     expireAt |-> serverTime + cfg.windowSeconds],
         reply  |-> [allowed |-> IF allowed THEN 1 ELSE 0,
                     tokens |-> LuaToInteger(left),
                     retry_after |-> retry_after]]

\* LuaScript answering a denial with one second, whatever is missing
LuaScriptRetryOne(exists, bucket, cfg, now, serverTime) ==
    LET tokens  == Refilled(exists, bucket, cfg, now)
        allowed == tokens >= TokenUnit
        left    == IF allowed THEN tokens - TokenUnit ELSE tokens
        retry_after == IF allowed THEN 0 ELSE 1
    IN  [bucket |-> [tokens |-> left, lastRefill |-> now,
                     expireAt |-> serverTime + cfg.windowSeconds],
         reply  |-> [allowed |-> IF allowed THEN 1 ELSE 0,
                     tokens |-> LuaToInteger(left),
                     retry_after |-> retry_after]]

\* LuaScript replying the token count it found, before the decrement
LuaScriptReplyBefore(exists, bucket, cfg, now, serverTime) ==
    LET tokens  == Refilled(exists, bucket, cfg, now)
        allowed == tokens >= TokenUnit
        left    == IF allowed THEN tokens - TokenUnit ELSE tokens
        retry_after == IF allowed THEN 0 ELSE Ceil(TokenUnit - tokens, cfg.refillRate)
    IN  [bucket |-> [tokens |-> left, lastRefill |-> now,
                     expireAt |-> serverTime + cfg.windowSeconds],
         reply  |-> [allowed |-> IF allowed THEN 1 ELSE 0,
                     tokens |-> LuaToInteger(tokens),
                     retry_after |-> retry_after]]

\* LuaScript setting the expiry when it creates the bucket only
LuaScriptExpireOnce(exists, bucket, cfg, now, serverTime) ==
    LET tokens  == Refilled(exists, bucket, cfg, now)
        allowed == tokens >= TokenUnit
        left    == IF allowed THEN tokens - TokenUnit ELSE tokens
        retry_after == IF allowed THEN 0 ELSE Ceil(TokenUnit - tokens, cfg.refillRate)
    IN  [bucket |-> [tokens |-> left, lastRefill |-> now,
                     expireAt |-> IF exists THEN bucket.expireAt
                                  ELSE serverTime + cfg.windowSeconds],
         reply  |-> [allowed |-> IF allowed THEN 1 ELSE 0,
                     tokens |-> LuaToInteger(left),
                     retry_after |-> retry_after]]

\* LuaScript storing on a denial the token count without its fraction
LuaScriptFloorsDenied(exists, bucket, cfg, now, serverTime) ==
    LET tokens  == Refilled(exists, bucket, cfg, now)
        allowed == tokens >= TokenUnit
        left    == IF allowed THEN tokens - TokenUnit
                   ELSE LuaToInteger(tokens) * TokenUnit
        retry_after == IF allowed THEN 0 ELSE Ceil(TokenUnit - tokens, cfg.refillRate)
    IN  [bucket |-> [tokens |-> left, lastRefill |-> now,
                     expireAt |-> serverTime + cfg.windowSeconds],
         reply  |-> [allowed |-> IF allowed THEN 1 ELSE 0,
                     tokens |-> LuaToInteger(left),
                     retry_after |-> retry_after]]

\* LuaScript replying one token less than it left
LuaScriptReplyBelow(exists, bucket, cfg, now, serverTime) ==
    LET tokens  == Refilled(exists, bucket, cfg, now)
        allowed == tokens >= TokenUnit
        left    == IF allowed THEN tokens - TokenUnit ELSE tokens
        retry_after == IF allowed THEN 0 ELSE Ceil(TokenUnit - tokens, cfg.refillRate)
    IN  [bucket |-> [tokens |-> left, lastRefill |-> now,
                     expireAt |-> serverTime + cfg.windowSeconds],
         reply  |-> [allowed |-> IF allowed THEN 1 ELSE 0,
                     tokens |-> LuaToInteger(left - TokenUnit),
                     retry_after |-> retry_after]]

\* the script: the new bucket and the reply {allowed, tokens, retry_after}
LuaScript(exists, bucket, cfg, now, serverTime) ==
    LET tokens  == Refilled(exists, bucket, cfg, now)
        allowed == tokens >= TokenUnit
        left    == IF allowed THEN tokens - TokenUnit ELSE tokens
        retry_after == IF allowed THEN 0 ELSE Ceil(TokenUnit - tokens, cfg.refillRate)
    IN  [bucket |-> [tokens |-> left, lastRefill |-> now,
                     expireAt |-> serverTime + cfg.windowSeconds],
         reply  |-> [allowed |-> IF allowed THEN 1 ELSE 0,
                     tokens |-> LuaToInteger(left),
                     retry_after |-> retry_after]]

\* VerdictOfReply dropping the retry hint
VerdictOfReplyNoRetry(reply) ==
    [outcome |-> "return",
     allowed |-> reply.allowed = 1,
     tokensRemaining |-> Floor(reply.tokens, 1),
     retryAfterSeconds |-> {}]

\* lines 157-163: the verdict consume builds from the reply
VerdictOfReply(reply) ==
    [outcome |-> "return",
     allowed |-> reply.allowed = 1,
     tokensRemaining |-> Floor(reply.tokens, 1),
     retryAfterSeconds |-> IF reply.retry_after > 0 THEN {reply.retry_after} ELSE {}]

\* CatchVerdict reporting an empty bucket instead of the sentinel -1
CatchVerdictNoSentinel ==
    [outcome |-> "return", allowed |-> TRUE, tokensRemaining |-> 0,
     retryAfterSeconds |-> {}]

\* CatchVerdict failing closed
CatchVerdictClosed ==
    [outcome |-> "return", allowed |-> FALSE, tokensRemaining |-> 0,
     retryAfterSeconds |-> {60}]

\* CatchVerdict rethrowing the error instead of answering
CatchVerdictRethrow ==
    [outcome |-> "throw", allowed |-> FALSE, tokensRemaining |-> 0,
     retryAfterSeconds |-> {}]

\* lines 164-168: the catch block of consume
CatchVerdict ==
    [outcome |-> "return", allowed |-> TRUE, tokensRemaining |-> -1,
     retryAfterSeconds |-> {}]

NoVerdict ==
    [outcome |-> "none", allowed |-> FALSE, tokensRemaining |-> 0,
     retryAfterSeconds |-> {}]

\* KeyOf forgetting whom the bucket is for: one bucket per route
KeyOfRoute(identifier) == <<"rate_limit", identifier[Len(identifier)]>>

\* line 102: the Redis key of an identifier, "rate_limit:" before it
KeyOf(identifier) == <<"rate_limit">> \o identifier

IdleCall ==
    [pc |-> "idle", identifier |-> <<>>, key |-> <<>>, cfg |-> [maxTokens |-> 1, refillRate |-> 1, windowSeconds |-> 1],
     now |-> 0, failed |-> FALSE, tries |-> 0, verdict |-> NoVerdict]

\* consume up to the await (lines 102-107): the key, Date.now() / 1000, and
\* the EVAL handed to the Redis client
SentCall(identifier, cfg, now) ==
    [IdleCall EXCEPT !.pc = "sent", !.identifier = identifier, !.key = KeyOf(identifier),
                     !.cfg = cfg, !.now = now, !.tries = 1]

\* Redis runs the script of caller c's EVAL and the reply reaches consume,
\* which returns the verdict (lines 107-163).
Eval(c) ==
    /\ calls[c].pc = "sent"
    /\ LET call == calls[c]
           ex   == call.key \in DOMAIN store
           r    == LuaScript(ex, Bucket(call.key), call.cfg, call.now, clock)
           v    == VerdictOfReply(r.reply)
       IN  /\ store' = [k \in DOMAIN store \cup {call.key} |->
                           IF k = call.key THEN r.bucket ELSE store[k]]
           /\ calls' = [calls EXCEPT ![c] = [call EXCEPT !.pc = "returned", !.verdict = v]]
    /\ UNCHANGED <<registry, metrics, clock, config, reqs>>

\* The EVAL of caller c is rejected (Redis unreachable, the connection
\* lost): the catch block returns its verdict.  Nothing is sent again.
EvalFails(c) ==
    /\ calls[c].pc = "sent"
    /\ calls' = [calls EXCEPT ![c] = [@ EXCEPT !.pc = "returned", !.failed = TRUE,
                                               !.verdict = CatchVerdict]]
    /\ UNCHANGED <<registry, metrics, clock, store, config, log, reqs>>

\* history: what Redis did for caller c's EVAL
Entry(c) ==
    LET call == calls[c]
        ex   == call.key \in DOMAIN store
        r    == LuaScript(ex, Bucket(call.key), call.cfg, call.now, clock)
    IN  [by |-> c, id |-> call.identifier, key |-> call.key, cfg |-> call.cfg,
         now |-> call.now, fresh |-> ~ex,
         tokens |-> r.bucket.tokens, allowed |-> r.reply.allowed = 1,
         remaining |-> r.reply.tokens, retry |-> r.reply.retry_after]

---------------------------------------------------------------------------
\* The environment: time and key expiry.

\* One second passes; Redis drops every key whose EXPIRE time has come.
Tick ==
    /\ clock < MaxClock
    /\ clock' = clock + 1
    /\ store' = [k \in {x \in DOMAIN store : store[x].expireAt > clock + 1} |-> store[k]]
    /\ UNCHANGED <<registry, metrics, config, calls, log, reqs>>

---------------------------------------------------------------------------
\* Direct callers of TokenBucket.consume (as the unit tests call it), each
\* calling once; they are numbered in the order they call.

Consume(c) ==
    /\ calls[c].pc = "idle"
    /\ \A d \in Callers : d < c => calls[d].pc # "idle"
    /\ \E id \in Idents, skew \in Skews :
           calls' = [calls EXCEPT ![c] = SentCall(<<id>>, config, clock + skew)]
    /\ UNCHANGED <<registry, metrics, clock, store, config, log, reqs>>

---------------------------------------------------------------------------
\* The route registry and its resolution.  A path or a pattern is the list
\* of its "/"-separated parts, as split("/") gives them: "/api/posts" is
\* <<"", "api", "posts">>.

Cfg(maxTokens, refillRate, windowSeconds) ==
    [maxTokens |-> maxTokens * TokenUnit, refillRate |-> refillRate * TokenUnit,
     windowSeconds |-> windowSeconds]

\* DEFAULT_RATE_LIMITS with the two limits of /api/posts exchanged
RateLimitsPostsSwapped ==
    << [pattern |-> <<"", "api", "auth", "login">>,
        perUser |-> {}, perIP |-> {Cfg(5, 1, 300)}],
       [pattern |-> <<"", "api", "auth", "register">>,
        perUser |-> {}, perIP |-> {Cfg(3, 1, 3600)}],
       [pattern |-> <<"", "api", "posts">>,
        perUser |-> {Cfg(20, 5, 60)}, perIP |-> {Cfg(10, 2, 60)}],
       [pattern |-> <<"", "api", "posts", ":postId", "upvote">>,
        perUser |-> {Cfg(30, 10, 60)}, perIP |-> {}],
       [pattern |-> <<"default">>,
        perUser |-> {Cfg(100, 50, 60)}, perIP |-> {Cfg(200, 100, 60)}] >>

\* in declaration order, as Object.entries yields it
DEFAULT_RATE_LIMITS ==
    << [pattern |-> <<"", "api", "auth", "login">>,
        perUser |-> {}, perIP |-> {Cfg(5, 1, 300)}],
       [pattern |-> <<"", "api", "auth", "register">>,
        perUser |-> {}, perIP |-> {Cfg(3, 1, 3600)}],
       [pattern |-> <<"", "api", "posts">>,
        perUser |-> {Cfg(10, 2, 60)}, perIP |-> {Cfg(20, 5, 60)}],
       [pattern |-> <<"", "api", "posts", ":postId", "upvote">>,
        perUser |-> {Cfg(30, 10, 60)}, perIP |-> {}],
       [pattern |-> <<"default">>,
        perUser |-> {Cfg(100, 50, 60)}, perIP |-> {Cfg(200, 100, 60)}] >>

\* part.startsWith(":")
StartsWithColon(part) == part \in {":postId"}

\* matchRoute without the comparison of the two lengths
matchRouteNoLength(actualParts, patternParts) ==
    \A i \in 1..Min(Len(actualParts), Len(patternParts)) :
        StartsWithColon(patternParts[i]) \/ patternParts[i] = actualParts[i]

\* lines 214-225: the parts of path and pattern compared one by one
matchRoute(actualParts, patternParts) ==
    /\ Len(actualParts) = Len(patternParts)
    /\ \A i \in 1..Len(patternParts) :
           StartsWithColon(patternParts[i]) \/ patternParts[i] = actualParts[i]

Limits(entry) == [perUser |-> entry.perUser, perIP |-> entry.perIP]

\* what a lookup of a key the registry does not have yields
Undefined == [undefined |-> TRUE]

\* lines 193-208: the exact key, else the first pattern that matches, else
\* the entry "default" (which is undefined when the registry has none)
getEndpointConfig(path) ==
    LET table   == registry
        exact   == {i \in 1..Len(table) : table[i].pattern = path}
        matches == {i \in 1..Len(table) :
                       table[i].pattern # <<"default">> /\ matchRoute(path, table[i].pattern)}
        dflt    == {i \in 1..Len(table) : table[i].pattern = <<"default">>}
        first(S) == CHOOSE i \in S : \A j \in S : i <= j
    IN  IF exact # {} THEN Limits(table[first(exact)])
        ELSE IF matches # {} THEN Limits(table[first(matches)])
        ELSE IF dflt # {} THEN Limits(table[first(dflt)])
        ELSE Undefined

---------------------------------------------------------------------------
\* The request and what the middleware reads from it.

\* String.trim on the entries the requests below carry
Trim(s) ==
    IF s \in {" 10.0.0.1 ", " 10.0.0.1"} THEN "10.0.0.1"
    ELSE IF s = " 192.168.1.1 " THEN "192.168.1.1"
    ELSE s

\* getClientIP taking the last entry of x-forwarded-for, the nearest proxy
getClientIPLast(req) ==
    IF req.forwarded # {} /\ (CHOOSE f \in req.forwarded : TRUE) # <<"">>
        THEN LET f == CHOOSE x \in req.forwarded : TRUE IN Trim(f[Len(f)])
    ELSE IF req.realIP # {} /\ req.realIP # {""}
        THEN CHOOSE x \in req.realIP : TRUE
    ELSE IF req.ip # {} /\ req.ip # {""}
        THEN CHOOSE x \in req.ip : TRUE
    ELSE IF req.remoteAddress # {} /\ req.remoteAddress # {""}
        THEN CHOOSE x \in req.remoteAddress : TRUE
    ELSE "unknown"

\* lines 231-247; an absent header or property is {}, an empty one ""

\* forwarded: the x-forwarded-for header, split at ","
getClientIP(req) ==
    IF req.forwarded # {} /\ (CHOOSE f \in req.forwarded : TRUE) # <<"">>
        THEN Trim((CHOOSE f \in req.forwarded : TRUE)[1])
    ELSE IF req.realIP # {} /\ req.realIP # {""}
        THEN CHOOSE x \in req.realIP : TRUE
    ELSE IF req.ip # {} /\ req.ip # {""}
        THEN CHOOSE x \in req.ip : TRUE
    ELSE IF req.remoteAddress # {} /\ req.remoteAddress # {""}
        THEN CHOOSE x \in req.remoteAddress : TRUE
    ELSE "unknown"

\* Checks with the per-IP check first
ChecksIPFirst(req) ==
    LET cfg      == getEndpointConfig(req.path)
        clientIP == getClientIP(req)
        user == IF req.userId # {} /\ cfg.perUser # {}
                THEN << [identifier |-> <<"user", CHOOSE u \in req.userId : TRUE, req.path>>,
                         identifierType |-> "user",
                         config |-> CHOOSE x \in cfg.perUser : TRUE] >>
                ELSE <<>>
        ip   == IF cfg.perIP # {}
                THEN << [identifier |-> <<"ip", clientIP, req.path>>,
                         identifierType |-> "ip",
                         config |-> CHOOSE x \in cfg.perIP : TRUE] >>
                ELSE <<>>
    IN  ip \o user

\* Checks without the test for a user id: an anonymous request is metered
\* under the user id "undefined"
ChecksNoUserTest(req) ==
    LET cfg      == getEndpointConfig(req.path)
        clientIP == getClientIP(req)
        user == IF cfg.perUser # {}
                THEN << [identifier |-> <<"user", IF req.userId # {}
                                                  THEN CHOOSE u \in req.userId : TRUE
                                                  ELSE "undefined", req.path>>,
                         identifierType |-> "user",
                         config |-> CHOOSE x \in cfg.perUser : TRUE] >>
                ELSE <<>>
        ip   == IF cfg.perIP # {}
                THEN << [identifier |-> <<"ip", clientIP, req.path>>,
                         identifierType |-> "ip",
                         config |-> CHOOSE x \in cfg.perIP : TRUE] >>
                ELSE <<>>
    IN  user \o ip

\* Checks naming the buckets by the registry key that gave the limits
\* (the pattern) and not by the path of the request
ChecksByPattern(req) ==
    LET cfg      == getEndpointConfig(req.path)
        clientIP == getClientIP(req)
        exact    == {i \in 1..Len(registry) : registry[i].pattern = req.path}
        matches  == {i \in 1..Len(registry) :
                        /\ registry[i].pattern # <<"default">>
                        /\ matchRoute(req.path, registry[i].pattern)}
        first(S) == CHOOSE i \in S : \A j \in S : i <= j
        endpoint == IF exact # {} THEN registry[first(exact)].pattern
                    ELSE IF matches # {} THEN registry[first(matches)].pattern
                    ELSE <<"default">>
        user == IF req.userId # {} /\ cfg.perUser # {}
                THEN << [identifier |-> <<"user", CHOOSE u \in req.userId : TRUE, endpoint>>,
                         identifierType |-> "user",
                         config |-> CHOOSE x \in cfg.perUser : TRUE] >>
                ELSE <<>>
        ip   == IF cfg.perIP # {}
                THEN << [identifier |-> <<"ip", clientIP, endpoint>>,
                         identifierType |-> "ip",
                         config |-> CHOOSE x \in cfg.perIP : TRUE] >>
                ELSE <<>>
    IN  user \o ip

\* the checks of a request (lines 256-285), the per-user check first
Checks(req) ==
    LET cfg      == getEndpointConfig(req.path)
        clientIP == getClientIP(req)
        user == IF req.userId # {} /\ cfg.perUser # {}
                THEN << [identifier |-> <<"user", CHOOSE u \in req.userId : TRUE, req.path>>,
                         identifierType |-> "user",
                         config |-> CHOOSE x \in cfg.perUser : TRUE] >>
                ELSE <<>>
        ip   == IF cfg.perIP # {}
                THEN << [identifier |-> <<"ip", clientIP, req.path>>,
                         identifierType |-> "ip",
                         config |-> CHOOSE x \in cfg.perIP : TRUE] >>
                ELSE <<>>
    IN  user \o ip

\* An identity token of the Authorization header: one signed with the
\* secret for a user, one whose payload names a user under a signature
\* that is not of the secret, or a string that is no token at all.
SignedToken(userId) == [form |-> "signed", userId |-> userId]

ForgedToken(userId) == [form |-> "forged", userId |-> userId]

MalformedToken == [form |-> "malformed", userId |-> ""]

\* jwtVerify reading the payload without verifying the signature
jwtDecode(token) == IF token.form \in {"signed", "forged"} THEN {token.userId} ELSE {}

\* jwt.verify(token, JWT_SECRET): the user of the payload, or nothing when
\* it throws
jwtVerify(token) == IF token.form = "signed" THEN {token.userId} ELSE {}

\* the authentication step that runs before the limiter: req.user is
\* attached when the token verifies, and the request goes on either way
AttachUser(req) ==
    [req EXCEPT !.userId = IF req.authorization # {}
                           THEN jwtVerify(CHOOSE t \in req.authorization : TRUE)
                           ELSE {}]

\* the requests handed to the middleware
ReqPaths ==
    { <<"", "api", "auth", "login">>, <<"", "api", "posts">>,
      <<"", "api", "posts", "42", "upvote">> }

Requests ==
    {r \in {AttachUser(q) : q \in [path : ReqPaths, authorization : {{}, {SignedToken("123")}},
                                    userId : {{}}, forwarded : {{}}, realIP : {{}},
                                    ip : {{"10.0.0.1"}}, remoteAddress : {{}}]} :
        ~(r.path = <<"", "api", "auth", "login">> /\ r.userId # {})}

NoHeaders == [limit |-> {}, remaining |-> {}, reset |-> {}, retryAfter |-> {}]

NoBody == [identifierType |-> "", retryAfter |-> {}]

IdleReq ==
    [pc |-> "idle", req |-> CHOOSE r \in Requests : TRUE, checks |-> <<>>, idx |-> 0,
     results |-> <<>>, headers |-> NoHeaders, status |-> 0, body |-> NoBody,
     nextCalls |-> 0]

\* The middleware is invoked with req in handler h: lines 255-294, up to
\* the first await.
Handle(h, req) ==
    IF getEndpointConfig(req.path) = Undefined
    THEN \* config.perUser or config.perIP of undefined (line 270 or 279)
         \* throws: the async middleware ends with neither next() nor a
         \* response
         /\ reqs' = [reqs EXCEPT ![h] = [@ EXCEPT !.pc = "rejected", !.req = req]]
         /\ calls' = calls
    ELSE
    LET checks == Checks(req)
    IN  IF Len(checks) = 0
        THEN /\ reqs' = [reqs EXCEPT ![h] = [@ EXCEPT !.pc = "next", !.req = req,
                                                      !.nextCalls = @ + 1]]
             /\ calls' = calls
        ELSE /\ reqs' = [reqs EXCEPT ![h] = [@ EXCEPT !.pc = "checking", !.req = req,
                                                      !.checks = checks, !.idx = 1]]
             /\ calls' = [calls EXCEPT ![h] =
                             SentCall(checks[1].identifier, checks[1].config, clock)]

\* Handler h takes a request.
Request(h) ==
    /\ reqs[h].pc = "idle"
    /\ \A d \in Handlers : d < h => reqs[d].pc # "idle"
    /\ \E req \in Requests : Handle(h, req)
    /\ UNCHANGED <<registry, metrics, clock, store, config, log>>

\* Date.now(), in milliseconds
DateNow == clock * 1000

\* lines 11-28: the metrics of the module, nothing counted or observed
\* yet.  A counter maps the label values it has been incremented with to
\* its count; the histogram maps them to the count and the sum of the
\* values observed and to the count of each bucket (the index of the
\* first upper bound a value is not above, one more for +Inf).
NoMetrics ==
    [rateLimitCounter |-> <<>>, rateLimitBlockedCounter |-> <<>>,
     rateLimitHistogram |-> <<>>]

\* buckets: [0, 10, 25, 50, 75, 100, 150, 200]
HistogramBuckets == <<0, 10, 25, 50, 75, 100, 150, 200>>

BucketOf(value) ==
    LET fits == {i \in DOMAIN HistogramBuckets : value <= HistogramBuckets[i]}
    IN  IF fits = {} THEN Len(HistogramBuckets) + 1
        ELSE CHOOSE i \in fits : \A j \in fits : i <= j

\* counter.inc(labels)
Inc(counter, labels) ==
    [l \in DOMAIN counter \cup {labels} |->
        (IF l \in DOMAIN counter THEN counter[l] ELSE 0) + (IF l = labels THEN 1 ELSE 0)]

\* histogram.observe(labels, value)
Observe(histogram, labels, value) ==
    LET had == IF labels \in DOMAIN histogram THEN histogram[labels]
               ELSE [count |-> 0, sum |-> 0, buckets |-> <<>>]
    IN  [l \in DOMAIN histogram \cup {labels} |->
            IF l = labels
            THEN [count |-> had.count + 1, sum |-> had.sum + value,
                  buckets |-> Inc(had.buckets, BucketOf(value))]
            ELSE histogram[l]]

\* the value of the label "result" (line 300)
ResultLabel(result) == IF result.allowed THEN "allowed" ELSE "blocked"

\* IsObserved observing the remaining tokens of every check
IsObservedAlways(result) == TRUE

\* line 303: the remaining tokens of the verdict go to the histogram
IsObserved(result) == result.tokensRemaining >= 0

\* lines 296-318: the metrics after the check of a request to path got
\* its verdict
RecordMetrics(check, path, result) ==
    [rateLimitCounter |->
        Inc(metrics.rateLimitCounter, <<check.identifierType, path, ResultLabel(result)>>),
     rateLimitHistogram |->
        IF IsObserved(result)
        THEN Observe(metrics.rateLimitHistogram, <<check.identifierType, path>>,
                     result.tokensRemaining)
        ELSE metrics.rateLimitHistogram,
     rateLimitBlockedCounter |->
        IF ~result.allowed
        THEN Inc(metrics.rateLimitBlockedCounter, <<check.identifierType, path>>)
        ELSE metrics.rateLimitBlockedCounter]

\* IsRateLimited blocking on the per-IP check only
IsRateLimitedIPOnly(check, result) == ~result.allowed /\ check.identifierType = "ip"

\* IsRateLimited blocking on the per-user check only
IsRateLimitedUserOnly(check, result) == ~result.allowed /\ check.identifierType = "user"

\* line 314: the check blocks the request
IsRateLimited(check, result) == ~result.allowed

\* TooManyRequests naming the address as the limiting identifier always
TooManyRequestsByIP(check, result) ==
    LET retry == IF result.retryAfterSeconds # {}
                 THEN CHOOSE x \in result.retryAfterSeconds : TRUE ELSE 1
    IN  [status  |-> 429,
         headers |-> [limit |-> {check.config.maxTokens},
                      remaining |-> {0},
                      reset |-> {DateNow + retry * 1000},
                      retryAfter |-> result.retryAfterSeconds],
         body    |-> [identifierType |-> "ip",
                      retryAfter |-> result.retryAfterSeconds]]

\* lines 331-347: the response to a request whose check is denied
TooManyRequests(check, result) ==
    LET retry == IF result.retryAfterSeconds # {}
                 THEN CHOOSE x \in result.retryAfterSeconds : TRUE ELSE 1
    IN  [status  |-> 429,
         headers |-> [limit |-> {check.config.maxTokens},
                      remaining |-> {0},
                      reset |-> {DateNow + retry * 1000},
                      retryAfter |-> result.retryAfterSeconds],
         body    |-> [identifierType |-> check.identifierType,
                      retryAfter |-> result.retryAfterSeconds]]

\* Handler h resumes with the verdict of its check: lines 294-357, up to
\* the next await or the end.
Resume(h) ==
    /\ reqs[h].pc = "checking"
    /\ calls[h].pc = "returned"
    /\ LET r      == reqs[h]
           check  == r.checks[r.idx]
           result == calls[h].verdict
           seen   == Append(r.results, [identifierType |-> check.identifierType,
                                        failed |-> calls[h].failed,
                                        allowed |-> result.allowed,
                                        tokensRemaining |-> result.tokensRemaining,
                                        retryAfterSeconds |-> result.retryAfterSeconds])
           denial == TooManyRequests(check, result)
       IN  IF result.outcome = "throw"
           THEN \* consume rejected: the async middleware ends with neither
                \* next() nor a response
                /\ reqs' = [reqs EXCEPT ![h] = [r EXCEPT !.pc = "rejected"]]
                /\ calls' = [calls EXCEPT ![h] = IdleCall]
           ELSE IF IsRateLimited(check, result)
           THEN /\ reqs' = [reqs EXCEPT ![h] =
                       [r EXCEPT !.pc = "blocked", !.results = seen,
                                 !.status = denial.status, !.headers = denial.headers,
                                 !.body = denial.body]]
                /\ calls' = [calls EXCEPT ![h] = IdleCall]
           ELSE LET hdrs == [r.headers EXCEPT !.limit = {check.config.maxTokens},
                                               !.remaining = {result.tokensRemaining}]
                IN  IF r.idx < Len(r.checks)
                    THEN /\ reqs' = [reqs EXCEPT ![h] =
                                [r EXCEPT !.results = seen, !.headers = hdrs, !.idx = @ + 1]]
                         /\ calls' = [calls EXCEPT ![h] =
                                SentCall(r.checks[r.idx + 1].identifier,
                                         r.checks[r.idx + 1].config, clock)]
                    ELSE /\ reqs' = [reqs EXCEPT ![h] =
                                [r EXCEPT !.pc = "next", !.results = seen, !.headers = hdrs,
                                          !.nextCalls = @ + 1]]
                         /\ calls' = [calls EXCEPT ![h] = IdleCall]
    /\ metrics' = IF calls[h].verdict.outcome = "throw" THEN metrics
                  ELSE RecordMetrics(reqs[h].checks[reqs[h].idx], reqs[h].req.path,
                                     calls[h].verdict)
    /\ UNCHANGED <<registry, clock, store, config, log>>

\* What Redis may hold when the gateway starts: nothing, or the buckets
\* earlier traffic at the start time left for the keys of the requests, with u
\* tokens in every per-user bucket and i tokens in every per-IP bucket.
WarmKeys == {Checks(req)[n] : <<req, n>> \in {x \in Requests \X {1, 2} : x[2] <= Len(Checks(x[1]))}}

\* the middleware starts here, the horizon of the clock one second ahead
StartClock == MaxClock - 1

WarmStore(u, i) ==
    [k \in {KeyOf(c.identifier) : c \in WarmKeys} |->
        LET c == CHOOSE x \in WarmKeys : KeyOf(x.identifier) = k
        IN  [tokens |-> (IF c.identifierType = "user" THEN u ELSE i) * TokenUnit,
             lastRefill |-> StartClock,
             expireAt |-> StartClock + c.config.windowSeconds]]

InitStores == {<<>>, WarmStore(1, 0), WarmStore(0, 1)}

Init ==
    /\ registry = DEFAULT_RATE_LIMITS
    /\ metrics = NoMetrics
    /\ clock = StartClock
    /\ store \in InitStores
    /\ config = Cfg(1, 1, 1)
    /\ calls = [h \in Handlers |-> IdleCall]
    /\ log = <<>>
    /\ reqs = [h \in Handlers |-> IdleReq]

Next ==
    \/ \E h \in Handlers : Request(h)
    \/ \E h \in Handlers : Eval(h) /\ log' = log
    \/ \E h \in Handlers : EvalFails(h)
    \/ \E h \in Handlers : Resume(h)
    \/ Tick

Spec == Init /\ [][Next]_vars

\* The middleware where every store call is settled, answered or failed
\* (the promise of redis.eval resolves or rejects, line 157), and the
\* event loop runs the continuation of every settled await (line 294).
SpecFair ==
    /\ Spec
    /\ \A h \in Handlers : WF_vars((Eval(h) /\ log' = log) \/ EvalFails(h))
    /\ \A h \in Handlers : WF_vars(Resume(h))

---------------------------------------------------------------------------
InitBucket ==
    /\ registry = DEFAULT_RATE_LIMITS
    /\ metrics = NoMetrics
    /\ clock = 1
    /\ store = <<>>
    /\ config \in Configs
    /\ calls = [c \in Callers |-> IdleCall]
    /\ log = <<>>
    /\ reqs = <<>>

NextBucket ==
    \/ \E c \in Callers : Consume(c)
    \/ \E c \in Callers : Eval(c) /\ log' = Append(log, Entry(c))
    \/ Tick

SpecBucket == InitBucket /\ [][NextBucket]_vars

---------------------------------------------------------------------------
\* Direct callers that await each consume before the next is made (as the
\* unit tests do: "await bucket.consume(...)" in a loop).

ConsumeNext(c) ==
    /\ \A d \in Callers : d < c => calls[d].pc = "returned"
    /\ Consume(c)

NextSerial ==
    \/ \E c \in Callers : ConsumeNext(c)
    \/ \E c \in Callers : Eval(c) /\ log' = Append(log, Entry(c))
    \/ Tick

SpecSerial == InitBucket /\ [][NextSerial]_vars

---------------------------------------------------------------------------
\* A client that sends its requests one at a time, awaiting each response
\* before it sends the next (as the test suite drives the middleware): it
\* repeats a request, and may move on to the next request of its script.

ClientReq(path, authorization) ==
    AttachUser([path |-> path, authorization |-> authorization, userId |-> {},
                forwarded |-> {}, realIP |-> {}, ip |-> {"127.0.0.1"},
                remoteAddress |-> {}])

LoginReq == ClientReq(<<"", "api", "auth", "login">>, {})

RegisterReq == ClientReq(<<"", "api", "auth", "register">>, {})

PostsReq(userId) == ClientReq(<<"", "api", "posts">>, {SignedToken(userId)})

\* POST /api/posts/42/upvote of a user
UpvoteReq(userId) ==
    ClientReq(<<"", "api", "posts", "42", "upvote">>, {SignedToken(userId)})

\* POST /api/posts/<postId>/upvote of a user
UpvoteOf(postId, userId) ==
    ClientReq(<<"", "api", "posts", postId, "upvote">>, {SignedToken(userId)})

\* a route of the same prefix that the registry does not name
CommentsReq(userId) ==
    ClientReq(<<"", "api", "posts", "42", "comments">>, {SignedToken(userId)})

\* GET /api/other
OtherReq == ClientReq(<<"", "api", "other">>, {})

\* a login that came through proxies: x-forwarded-for (split at ",") and
\* x-real-ip as given, the peer still 127.0.0.1
LoginVia(forwarded, realIP) ==
    [LoginReq EXCEPT !.forwarded = forwarded, !.realIP = realIP]

\* a login with no proxy header and no req.ip: the address of the socket,
\* if it has one
LoginFrom(remoteAddress) ==
    [LoginReq EXCEPT !.ip = {}, !.remoteAddress = remoteAddress]

\* POST /api/posts with the Authorization header given: no header, a
\* token that is none ("Bearer invalid-token"), a token of a wrong signature
PostsWith(authorization) == ClientReq(<<"", "api", "posts">>, authorization)

ClientRequests ==
    {LoginReq, RegisterReq, PostsReq("123"), PostsReq("456"),
     UpvoteReq("123"), CommentsReq("123"), OtherReq,
     PostsWith({MalformedToken}), PostsWith({ForgedToken("123")}),
     LoginVia({<<"192.168.1.1", " 10.0.0.1">>}, {}),
     LoginVia({<<" 192.168.1.1 ">>}, {"192.168.1.100"}),
     LoginVia({}, {"192.168.1.100"}),
     LoginVia({<<"">>}, {""}),
     LoginFrom({"::1"}),
     LoginFrom({})}

\* after req the client sends req again, or what its script has next:
\* login after register, the posts of user 456 after those of user 123,
\* the comments of a post after its upvote, the upvote of post 2 after
\* that of post 1, a post without a token after
\* the posts with a malformed one, and behind the proxies a second client
\* after the first
Follow(req) ==
    {req} \cup (IF req = RegisterReq THEN {LoginReq}
                ELSE IF req = PostsReq("123") THEN {PostsReq("456")}
                ELSE IF req = UpvoteReq("123") THEN {CommentsReq("123")}
                ELSE IF req = UpvoteOf("1", "123") THEN {UpvoteOf("2", "123")}
                ELSE IF req = PostsWith({MalformedToken}) THEN {PostsWith({})}
                ELSE IF req = LoginVia({<<"192.168.1.1", " 10.0.0.1">>}, {})
                     THEN {LoginVia({<<"192.168.1.2", " 10.0.0.1">>}, {})}
                ELSE {})

\* The client sends its next request; the middleware is invoked with it.
Send(h) ==
    /\ reqs[h].pc = "idle"
    /\ Len(log) < MaxEvals
    /\ \E req \in Follow(reqs[h].req) : Handle(h, req)
    /\ UNCHANGED <<registry, metrics, clock, store, config, log>>

\* The invocation of the middleware is over (line 343: the 429 sent, or
\* line 356: next() called) and the client has its response.
Finish(h) ==
    /\ reqs[h].pc \in {"next", "blocked"}
    /\ reqs' = [reqs EXCEPT ![h] = [IdleReq EXCEPT !.req = reqs[h].req]]
    /\ UNCHANGED <<registry, metrics, clock, store, config, calls, log>>

InitClient ==
    /\ registry = DEFAULT_RATE_LIMITS
    /\ metrics = NoMetrics
    /\ clock = StartClock
    /\ store = <<>>
    /\ config = Cfg(1, 1, 1)
    /\ calls = [h \in {1} |-> IdleCall]
    /\ log = <<>>
    /\ reqs \in {[h \in {1} |-> [IdleReq EXCEPT !.req = r]] : r \in ClientRequests}

NextClient ==
    \/ Send(1)
    \/ Eval(1) /\ log' = Append(log, Entry(1))
    \/ Resume(1)
    \/ Finish(1)
    \/ Tick

SpecClient == InitClient /\ [][NextClient]_vars

---------------------------------------------------------------------------
\* The module with a registry that has no entry "default":
\* createRateLimitMiddleware (lines 252-255) makes the TokenBucket and
\* returns the middleware without looking at the registry, and the serial
\* client sends its requests to it.

RateLimitsNoDefault ==
    SelectSeq(DEFAULT_RATE_LIMITS, LAMBDA e : e.pattern # <<"default">>)

InitNoDefault ==
    /\ registry = RateLimitsNoDefault
    /\ metrics = NoMetrics
    /\ clock = StartClock
    /\ store = <<>>
    /\ config = Cfg(1, 1, 1)
    /\ calls = [h \in {1} |-> IdleCall]
    /\ log = <<>>
    /\ reqs \in {[h \in {1} |-> [IdleReq EXCEPT !.req = r]] :
                    r \in {LoginReq, UpvoteReq("123"), OtherReq}}

SpecNoDefault == InitNoDefault /\ [][NextClient]_vars

---------------------------------------------------------------------------
\* A user who upvotes post 1 and then post 2, on a store that is empty or
\* holds what 29 upvotes of post 1 at the start time left: the last token
\* of the bucket of that user and path (upvote: perUser 30 tokens, 10 a
\* second, window 60).

UpvoteConfig == CHOOSE x \in getEndpointConfig(UpvoteOf("1", "123").path).perUser : TRUE

UpvotedStore ==
    LET k == KeyOf(Checks(UpvoteOf("1", "123"))[1].identifier)
    IN  [x \in {k} |-> [tokens |-> TokenUnit, lastRefill |-> StartClock,
                        expireAt |-> StartClock + UpvoteConfig.windowSeconds]]

InitUpvotes ==
    /\ registry = DEFAULT_RATE_LIMITS
    /\ metrics = NoMetrics
    /\ clock = StartClock
    /\ store \in {<<>>, UpvotedStore}
    /\ config = Cfg(1, 1, 1)
    /\ calls = [h \in {1} |-> IdleCall]
    /\ log = <<>>
    /\ reqs \in {[h \in {1} |-> [IdleReq EXCEPT !.req = r]] :
                    r \in {UpvoteOf("1", "123"), UpvoteOf("2", "123")}}

SpecUpvotes == InitUpvotes /\ [][NextClient]_vars

---------------------------------------------------------------------------
\* Direct callers that await each consume, under a config the registry
\* ships and over spans of time as long as its windows: a caller may stay
\* away, or the reply of the store may stay out, for as long as a window.

\* the limits the registry ships
ShippedConfigs ==
    UNION {DEFAULT_RATE_LIMITS[i].perUser \cup DEFAULT_RATE_LIMITS[i].perIP :
              i \in DOMAIN DEFAULT_RATE_LIMITS}

Windows == {cfg.windowSeconds : cfg \in ShippedConfigs}

\* d seconds pass at once; Redis drops every key whose EXPIRE time has come.
Elapse(d) ==
    /\ clock <= MaxClock
    /\ clock' = clock + d
    /\ store' = [k \in {x \in DOMAIN store : store[x].expireAt > clock + d} |-> store[k]]
    /\ UNCHANGED <<registry, metrics, config, calls, log, reqs>>

\* the entry of the history with the time of the store at which the script
\* ran (the time EXPIRE counts from)
EntryAt(c) == [at |-> clock] @@ Entry(c)

InitElapse ==
    /\ registry = DEFAULT_RATE_LIMITS
    /\ metrics = NoMetrics
    /\ clock = 1
    /\ store = <<>>
    /\ config \in ShippedConfigs
    /\ calls = [c \in Callers |-> IdleCall]
    /\ log = <<>>
    /\ reqs = <<>>

NextElapse ==
    \/ \E c \in Callers : ConsumeNext(c)
    \/ \E c \in Callers : Eval(c) /\ log' = Append(log, EntryAt(c))
    \/ Tick
    \/ \E d \in Windows : Elapse(d)

SpecElapse == InitElapse /\ [][NextElapse]_vars

---------------------------------------------------------------------------
\* Properties.

RECURSIVE CountAllowed(_, _, _)
\* the allowed entries among log[i..j]
CountAllowed(l, i, j) ==
    IF i > j THEN 0
    ELSE (IF l[j].allowed THEN 1 ELSE 0) + CountAllowed(l, i, j - 1)

\* log[i..j] is a burst on a new bucket: entry i created the bucket, the
\* bucket lived on to entry j, and every call carried the same now
Burst(i, j) ==
    /\ i <= j
    /\ log[i].fresh
    /\ \A n \in i..j : /\ log[n].key = log[i].key
                       /\ log[n].now = log[i].now
                       /\ (n > i => ~log[n].fresh)

\* C1 (boundedness): after every consume the tokens stored for a bucket
\* are at least 0 and at most maxTokens.
C1_Boundedness ==
    \A k \in DOMAIN store : 0 <= store[k].tokens /\ store[k].tokens <= config.maxTokens

C3_ClockSkewClamp ==
    [][\A c \in Callers :
          ( /\ calls[c].pc = "sent"
            /\ calls'[c].pc = "returned"
            /\ calls[c].key \in DOMAIN store
            /\ calls[c].now < store[calls[c].key].lastRefill )
          => /\ Refilled(TRUE, store[calls[c].key], calls[c].cfg, calls[c].now)
                    >= store[calls[c].key].tokens
             /\ (store[calls[c].key].tokens >= TokenUnit => calls'[c].verdict.allowed)]_vars

\* every check the request of handler h has run met a store failure
AllFailed(h) ==
    /\ Len(reqs[h].results) > 0
    /\ \A n \in 1..Len(reqs[h].results) : reqs[h].results[n].failed

\* C4 (fail-open): a check whose store call fails yields allowed = true
\* with tokensRemaining = -1, and a request all of whose store calls fail
\* is passed to the next handler, never answered with 429.
C4_FailOpen ==
    \A h \in Handlers :
        /\ (calls[h].pc = "returned" /\ calls[h].failed)
              => (calls[h].verdict.allowed /\ calls[h].verdict.tokensRemaining = -1)
        /\ \A n \in 1..Len(reqs[h].results) :
              reqs[h].results[n].failed
                 => (reqs[h].results[n].allowed /\ reqs[h].results[n].tokensRemaining = -1)
        /\ AllFailed(h) => (reqs[h].status # 429 /\ reqs[h].pc \in {"checking", "next"})
        /\ (AllFailed(h) /\ Len(reqs[h].results) = Len(reqs[h].checks))
              => (reqs[h].pc = "next" /\ reqs[h].nextCalls = 1)

\* a request with a per-user and a per-IP check, both failed, passed on
C4_Witness ==
    \E h \in Handlers :
        /\ reqs[h].pc = "next"
        /\ Len(reqs[h].results) = 2
        /\ AllFailed(h)

\* the routes a caller would designate fail-closed (sensitive routes)
FailClosedRoutes == { <<"", "api", "auth", "login">> }

C6_SignalsFailure ==
    \A h \in Handlers :
        (calls[h].pc = "returned" /\ calls[h].failed)
           => (calls[h].verdict.outcome = "throw" /\ calls[h].tries = 1)

\* C6 (amended): when the store call cannot complete, consume does not
\* retry and does not signal the failure: it returns the fixed verdict
\* allowed = true, tokensRemaining = -1, no retryAfterSeconds, and the
\* middleware goes on with it.
C6_ReturnsFailOpenVerdict ==
    \A h \in Handlers :
        /\ (calls[h].pc = "returned" /\ calls[h].failed)
              => /\ calls[h].verdict.outcome = "return"
                 /\ calls[h].verdict.allowed
                 /\ calls[h].verdict.tokensRemaining = -1
                 /\ calls[h].verdict.retryAfterSeconds = {}
                 /\ calls[h].tries = 1
        /\ reqs[h].pc # "rejected"

\* a consume that has returned after its store call failed
C6_Witness ==
    \E h \in Handlers : calls[h].pc = "returned" /\ calls[h].failed

\* C7: a check resolved by fail-open sets no rate-limit headers: a request
\* all of whose checks met a store failure carries neither X-RateLimit-Limit
\* nor X-RateLimit-Remaining.
C7_NoHeadersOnFailOpen ==
    \A h \in Handlers :
        AllFailed(h) => (reqs[h].headers.limit = {} /\ reqs[h].headers.remaining = {})

\* C8: a consume does not wait for the store for a second or more: by then
\* it has been treated as failed and the request has its verdict.
C8_BoundedWait ==
    \A h \in Handlers : calls[h].pc = "sent" => clock - calls[h].now < 1

\* C9 (aggregate verdict): a request is passed to the next handler only if
\* every check run for it was allowed, and then every check of it was run;
\* once a check is denied the request is answered with 429 and next is
\* never called.
C9_AggregateVerdict ==
    \A h \in Handlers :
        /\ reqs[h].nextCalls > 0
              => /\ Len(reqs[h].results) = Len(reqs[h].checks)
                 /\ \A n \in 1..Len(reqs[h].results) : reqs[h].results[n].allowed
                 /\ reqs[h].status # 429
        /\ (\E n \in 1..Len(reqs[h].results) : ~reqs[h].results[n].allowed)
              => (reqs[h].pc = "blocked" /\ reqs[h].status = 429 /\ reqs[h].nextCalls = 0)
        /\ (calls[h].pc = "returned" /\ ~calls[h].verdict.allowed) => reqs[h].nextCalls = 0

\* a request answered with 429 by its per-IP check after its per-user check
\* was allowed
C9_Witness ==
    \E h \in Handlers :
        /\ reqs[h].pc = "blocked"
        /\ reqs[h].status = 429
        /\ Len(reqs[h].results) = 2
        /\ reqs[h].results[1].allowed
        /\ ~reqs[h].results[2].allowed

\* C10 (check selection): the checks of a request are the per-user check
\* iff it carries a user id and its route defines perUser, and the per-IP
\* check iff its route defines perIP, keyed by that user id, resp. the
\* client IP, and the path; a request with no check is passed on without
\* any store call.
C10_CheckSelection ==
    \A h \in Handlers :
        reqs[h].pc # "idle" =>
            LET r     == reqs[h]
                entry == getEndpointConfig(r.req.path)
                types == {r.checks[n].identifierType : n \in 1..Len(r.checks)}
            IN  /\ ("user" \in types) <=> (r.req.userId # {} /\ entry.perUser # {})
                /\ ("ip" \in types) <=> (entry.perIP # {})
                /\ Len(r.checks) = Cardinality(types)
                /\ \A n \in 1..Len(r.checks) :
                      /\ r.checks[n].identifierType = "user"
                            => /\ r.checks[n].identifier[2] \in r.req.userId
                               /\ r.checks[n].identifier[3] = r.req.path
                               /\ r.checks[n].config \in entry.perUser
                      /\ r.checks[n].identifierType = "ip"
                            => /\ r.checks[n].identifier[2] = getClientIP(r.req)
                               /\ r.checks[n].identifier[3] = r.req.path
                               /\ r.checks[n].config \in entry.perIP
                /\ Len(r.checks) = 0
                      => /\ r.pc = "next"
                         /\ r.nextCalls = 1
                         /\ r.idx = 0
                         /\ calls[h].pc = "idle"
                         /\ r.results = <<>>

\* a request without user id to the upvote route, which defines only
\* perUser: passed on with no check and no store call
C10_Witness ==
    \E h \in Handlers :
        /\ reqs[h].pc = "next"
        /\ reqs[h].req.userId = {}
        /\ reqs[h].req.path = <<"", "api", "posts", "42", "upvote">>
        /\ reqs[h].checks = <<>>
        /\ calls[h].pc = "idle"

\* the last entry before the n-th for the same identifier, 0 if there is none
Prev(n) ==
    LET P == {p \in 1..(n - 1) : log[p].id = log[n].id}
    IN  IF P = {} THEN 0 ELSE CHOOSE p \in P : \A q \in P : q <= p

\* what an entry records of the script's result
Recorded(e) ==
    [tokens |-> e.tokens, allowed |-> e.allowed, remaining |-> e.remaining, retry |-> e.retry]

\* the same of a result of the script
Outcome(r) ==
    [tokens |-> r.bucket.tokens, allowed |-> r.reply.allowed = 1,
     remaining |-> r.reply.tokens, retry |-> r.reply.retry_after]

\* C11 (independence): the bucket of an identifier is touched by the
\* consumes for that identifier only.  The first consume for an identifier
\* finds no bucket, whatever was consumed for other identifiers (another
\* user on the same route and config, the same address on another route);
\* a later one finds the tokens and lastRefill that the previous consume
\* for the same identifier stored; and the store holds for each identifier
\* what the last consume for it stored.  So the verdict for B is what it
\* would be had A never consumed.
C11_Independence ==
    \A n \in 1..Len(log) :
        LET e == log[n]
            p == Prev(n)
        IN  /\ p = 0 => e.fresh
            /\ e.fresh
                  => Recorded(e) = Outcome(LuaScript(FALSE, NoBucket, e.cfg, e.now, 0))
            /\ ~e.fresh
                  => /\ p > 0
                     /\ Recorded(e) =
                           Outcome(LuaScript(TRUE, [tokens |-> log[p].tokens,
                                                    lastRefill |-> log[p].now,
                                                    expireAt |-> 0],
                                             e.cfg, e.now, 0))
            /\ (\A m \in (n + 1)..Len(log) : log[m].id # e.id)
                  => /\ KeyOf(e.id) \in DOMAIN store
                     /\ store[KeyOf(e.id)].tokens = e.tokens
                     /\ store[KeyOf(e.id)].lastRefill = e.now

\* user 123 has exhausted the per-user bucket of /api/posts and is denied;
\* the first request of user 456 to the same route is allowed by its own
\* per-user check, on a bucket created full
C11_Witness ==
    \E n \in 1..Len(log) : \E m \in (n + 1)..Len(log) :
        /\ log[n].id = <<"user", "123", <<"", "api", "posts">>>>
        /\ ~log[n].allowed
        /\ log[m].id = <<"user", "456", <<"", "api", "posts">>>>
        /\ log[m].cfg = log[n].cfg
        /\ log[m].fresh
        /\ log[m].allowed
        /\ log[m].now = log[n].now

\* C12 as stated: when a consume left tokens = 0 at time T, the next consume
\* on that bucket, at time T + t, is allowed iff t >= 1 / refillRate.
C12_RefillMonotonicity ==
    \A n \in 1..(Len(log) - 1) :
        (log[n].tokens = 0 /\ log[n + 1].id = log[n].id)
           => (log[n + 1].allowed
                  <=> (log[n + 1].now - log[n].now) * log[n].cfg.refillRate >= TokenUnit)

\* C12 (amended): the same for a bucket of capacity maxTokens >= 1 whose
\* record is still stored at the second consume (not expired after
\* windowSeconds without a consume): allowed iff t >= 1 / refillRate.  An
\* expired record is created anew, full, and the consume is allowed at once.
C12_RefillWhileStored ==
    \A n \in 1..(Len(log) - 1) :
        (log[n].tokens = 0 /\ log[n + 1].id = log[n].id /\ log[n].cfg.maxTokens >= TokenUnit)
           => IF log[n + 1].fresh
              THEN log[n + 1].allowed
              ELSE log[n + 1].allowed
                      <=> (log[n + 1].now - log[n].now) * log[n].cfg.refillRate >= TokenUnit

\* an emptied bucket refilling at one token per second: denied at once,
\* allowed one second later, the record still stored
C12_Witness ==
    \E n \in 1..(Len(log) - 2) :
        /\ log[n].tokens = 0
        /\ log[n].cfg.refillRate = TokenUnit
        /\ log[n + 1].now = log[n].now
        /\ ~log[n + 1].allowed
        /\ log[n + 1].tokens = 0
        /\ log[n + 2].now = log[n].now + 1
        /\ ~log[n + 2].fresh
        /\ log[n + 2].allowed

\* C13 as stated: when a consume at time T is denied with retryAfterSeconds
\* = r, the next consume on the bucket, if made at time T + r, is allowed,
\* and r exceeds the exact waiting time (1 - tokens) / refillRate by less
\* than one refill tick, 1 / refillRate seconds.
C13_RetryAfterAccuracy ==
    \A n \in 1..Len(log) :
        ~log[n].allowed
           => /\ (n < Len(log) /\ log[n + 1].id = log[n].id
                      /\ log[n + 1].now = log[n].now + log[n].retry)
                    => log[n + 1].allowed
              /\ log[n].retry * log[n].cfg.refillRate - (TokenUnit - log[n].tokens)
                    < TokenUnit

\* C13 (amended): for a config with maxTokens >= 1 the consume at T + r is
\* allowed; and for every config r is the exact waiting time rounded up to
\* whole seconds: not less than it, and less than one second more.
C13_RetryAfterRoundedUp ==
    \A n \in 1..Len(log) :
        ~log[n].allowed
           => /\ (n < Len(log) /\ log[n + 1].id = log[n].id
                      /\ log[n + 1].now = log[n].now + log[n].retry
                      /\ log[n].cfg.maxTokens >= TokenUnit)
                    => log[n + 1].allowed
              /\ log[n].retry * log[n].cfg.refillRate >= TokenUnit - log[n].tokens
              /\ log[n].retry * log[n].cfg.refillRate - (TokenUnit - log[n].tokens)
                    < log[n].cfg.refillRate

\* a consume denied with retryAfterSeconds = 2 (an empty bucket refilling
\* at half a token per second), and the consume two seconds later allowed
C13_Witness ==
    \E n \in 1..(Len(log) - 1) :
        /\ ~log[n].allowed
        /\ log[n].retry = 2
        /\ log[n + 1].id = log[n].id
        /\ log[n + 1].now = log[n].now + 2
        /\ log[n + 1].allowed

\* C14: every denied verdict carries a retry hint: retryAfterSeconds is
\* present and a whole number of seconds >= 1, and the 429 response carries
\* it in the Retry-After header and in the field retryAfter of its body.
C14_RetryHint ==
    /\ \A c \in DOMAIN calls :
          (calls[c].pc = "returned" /\ ~calls[c].verdict.allowed)
             => /\ calls[c].verdict.retryAfterSeconds # {}
                /\ \A r \in calls[c].verdict.retryAfterSeconds : r \in Nat /\ r >= 1
    /\ \A h \in DOMAIN reqs :
          reqs[h].status = 429
             => LET last == reqs[h].results[Len(reqs[h].results)]
                IN  /\ ~last.allowed
                    /\ last.retryAfterSeconds # {}
                    /\ \A r \in last.retryAfterSeconds : r \in Nat /\ r >= 1
                    /\ reqs[h].headers.retryAfter = last.retryAfterSeconds
                    /\ reqs[h].body.retryAfter = last.retryAfterSeconds

\* a request answered with 429, Retry-After: 1 and retryAfter 1 in the body
C14_Witness ==
    \E h \in DOMAIN reqs :
        /\ reqs[h].status = 429
        /\ reqs[h].headers.retryAfter = {1}
        /\ reqs[h].body.retryAfter = {1}

\* the entries up to the n-th for the identifier of the n-th, from the one
\* that created its bucket on
SinceCreated(n) ==
    LET S == {m \in 1..n : log[m].id = log[n].id}
        f == CHOOSE m \in S : log[m].fresh /\ \A q \in S : log[q].fresh => q <= m
    IN  {m \in S : m >= f}

\* the entry after the n-th for the same identifier, 0 if there is none
Succ(n) ==
    LET S == {m \in (n + 1)..Len(log) : log[m].id = log[n].id}
    IN  IF S = {} THEN 0 ELSE CHOOSE m \in S : \A q \in S : m <= q

\* C15 (burst scenario): on a bucket that did not exist, of a whole number
\* N of tokens, with all consumes carrying the same now, the k-th consume
\* is allowed with tokensRemaining = N - k for k <= N, and denied with
\* retryAfterSeconds = ceil(1 / refillRate) for k > N; and with N = 5,
\* refillRate = 1 the consume that follows a denied one a second later is
\* allowed.
C15_BurstScenario ==
    \A n \in 1..Len(log) :
        LET e == log[n]
            B == SinceCreated(n)
            k == Cardinality(B)
            N == e.cfg.maxTokens \div TokenUnit
        IN  ( /\ e.cfg.maxTokens = N * TokenUnit
              /\ \A m \in B : log[m].now = e.now )
            => /\ k <= N => (e.allowed /\ e.remaining = N - k /\ e.retry = 0)
               /\ k > N => (~e.allowed /\ e.retry = Ceil(TokenUnit, e.cfg.refillRate))
               /\ ( /\ k > N
                     /\ N = 5
                     /\ e.cfg.refillRate = TokenUnit
                     /\ Succ(n) # 0
                     /\ log[Succ(n)].now = e.now + 1 )
                  => log[Succ(n)].allowed

\* the login bucket of an address (5 tokens, 1 per second): five requests
\* allowed with 4, 3, 2, 1, 0 remaining, the sixth denied with
\* retryAfterSeconds = 1, the seventh, a second later, allowed
C15_Witness ==
    /\ Len(log) = 7
    /\ \A n \in 1..7 : log[n].id = <<"ip", "127.0.0.1", <<"", "api", "auth", "login">>>>
    /\ \A n \in 1..6 : log[n].now = log[1].now
    /\ \A n \in 1..5 : log[n].allowed /\ log[n].remaining = 5 - n
    /\ ~log[6].allowed
    /\ log[6].retry = 1
    /\ log[7].now = log[1].now + 1
    /\ log[7].allowed

\* the entries among the first n for identifier id
EntriesFor(id, n) == {m \in 1..n : log[m].id = id}

\* so far the client has sent only requests of user u to /api/posts, all at
\* one instant
Hammering(u) ==
    /\ log # <<>>
    /\ \A n \in 1..Len(log) :
          /\ log[n].id \in { <<"user", u, PostsReq(u).path>>,
                              <<"ip", "127.0.0.1", PostsReq(u).path>> }
          /\ log[n].now = log[1].now
    /\ reqs[1].req = PostsReq(u)

\* C16 (dual-limit scenario): on /api/posts (perUser maxTokens 10, perIP
\* maxTokens 20) one user sending requests from one address at one instant
\* has requests 1..10 allowed; request 11 is denied by the per-user check
\* and the 429 names the identifier type user, while the per-IP bucket
\* holds at least one token.
C16_DualLimit ==
    \A u \in {"123", "456"} :
        Hammering(u) =>
            LET user == <<"user", u, PostsReq(u).path>>
                ip   == <<"ip", "127.0.0.1", PostsReq(u).path>>
                sent == Cardinality(EntriesFor(user, Len(log)))
            IN  /\ \A n \in 1..Len(log) :
                      /\ log[n].id = user
                            => (log[n].allowed <=> Cardinality(EntriesFor(user, n)) <= 10)
                      /\ log[n].id = ip => log[n].allowed
                /\ Cardinality(EntriesFor(ip, Len(log))) <= 10
                /\ reqs[1].pc = "next" => sent <= 10
                /\ reqs[1].pc = "blocked"
                      => /\ sent >= 11
                         /\ reqs[1].status = 429
                         /\ reqs[1].body.identifierType = "user"
                         /\ Len(reqs[1].results) = 1
                /\ sent >= 11
                      => /\ KeyOf(ip) \in DOMAIN store
                         /\ store[KeyOf(ip)].tokens >= TokenUnit

\* the eleventh request of user 123 answered with 429 for the user, ten
\* having been allowed, with ten tokens left in the bucket of the address
C16_Witness ==
    /\ Hammering("123")
    /\ Cardinality(EntriesFor(<<"user", "123", PostsReq("123").path>>, Len(log))) = 11
    /\ Cardinality(EntriesFor(<<"ip", "127.0.0.1", PostsReq("123").path>>, Len(log))) = 10
    /\ reqs[1].pc = "blocked"
    /\ reqs[1].body.identifierType = "user"
    /\ store[KeyOf(<<"ip", "127.0.0.1", PostsReq("123").path>>)].tokens = 10 * TokenUnit

\* in this step Redis ran the script of the call of c
Evaluated(c) ==
    /\ calls[c].pc = "sent"
    /\ calls'[c].pc = "returned"
    /\ ~calls'[c].failed

\* C17 (no refund): a request whose per-user check applies is denied by the
\* per-IP check only after its per-user check was run and allowed; the
\* script took one token from the per-user bucket for it; the denial
\* changes nothing in the store and makes no further store call; and the
\* tokens of a bucket never grow except by the refill of a consume on that
\* bucket.  So the per-user token is not given back.
C17_NoRefund ==
    [][\A h \in Handlers :
          /\ (Evaluated(h) /\ calls[h].identifier[1] = "user" /\ calls'[h].verdict.allowed)
                => store'[calls[h].key].tokens
                      = Refilled(calls[h].key \in DOMAIN store, Bucket(calls[h].key),
                                 calls[h].cfg, calls[h].now) - TokenUnit
          /\ ( /\ reqs[h].pc = "checking"
                /\ reqs'[h].pc = "blocked"
                /\ reqs'[h].body.identifierType = "ip"
                /\ reqs[h].req.userId # {}
                /\ getEndpointConfig(reqs[h].req.path).perUser # {} )
                => /\ Len(reqs[h].results) = 1
                   /\ reqs[h].results[1].identifierType = "user"
                   /\ reqs[h].results[1].allowed
                   /\ store' = store
                   /\ calls'[h].pc = "idle"
          /\ reqs[h].pc = "blocked" => (calls[h].pc = "idle" /\ calls'[h].pc = "idle")
          /\ \A k \in DOMAIN store \cap DOMAIN store' :
                store'[k].tokens > store[k].tokens
                   => \E c \in Handlers : Evaluated(c) /\ calls[c].key = k]_vars

\* a request denied by the per-IP check whose per-user check had taken the
\* last token of the user's bucket: the bucket is still empty
C17_Witness ==
    \E h \in Handlers :
        /\ reqs[h].pc = "blocked"
        /\ reqs[h].body.identifierType = "ip"
        /\ Len(reqs[h].results) = 2
        /\ reqs[h].results[1].identifierType = "user"
        /\ reqs[h].results[1].allowed
        /\ ~reqs[h].results[1].failed
        /\ reqs[h].results[1].tokensRemaining = 0
        /\ KeyOf(reqs[h].checks[1].identifier) \in DOMAIN store
        /\ store[KeyOf(reqs[h].checks[1].identifier)].tokens = 0

\* C18: on an allowed request for which the per-user and the per-IP check
\* both ran, X-RateLimit-Limit and X-RateLimit-Remaining are those of the
\* check with the fewest tokens remaining.
C18_MostRestrictiveHeaders ==
    \A h \in Handlers :
        ( /\ reqs[h].pc = "next"
          /\ Len(reqs[h].results) = 2
          /\ \A n \in 1..2 : ~reqs[h].results[n].failed )
        => \E m \in 1..2 :
              /\ \A n \in 1..2 : reqs[h].results[m].tokensRemaining
                                     <= reqs[h].results[n].tokensRemaining
              /\ reqs[h].headers.remaining = {reqs[h].results[m].tokensRemaining}
              /\ reqs[h].headers.limit = {reqs[h].checks[m].config.maxTokens}

\* C19: every request for which a check ran gets a limit, a remaining and
\* a reset value; on denial the reset value is the time of the response
\* plus retryAfterSeconds, in milliseconds.
C19_HeadersOnEveryCheckedRequest ==
    \A h \in Handlers :
        (reqs[h].pc \in {"next", "blocked"} /\ Len(reqs[h].results) >= 1)
        => /\ reqs[h].headers.limit # {}
           /\ reqs[h].headers.remaining # {}
           /\ reqs[h].headers.reset # {}
           /\ reqs[h].pc = "blocked"
                 => \E t \in 0..clock :
                       \E r \in reqs[h].results[Len(reqs[h].results)].retryAfterSeconds :
                          reqs[h].headers.reset = {t * 1000 + r * 1000}

\* C20 (denial response): a request with a denied check is answered at the
\* first denied check with status 429, X-RateLimit-Remaining 0,
\* X-RateLimit-Limit the maxTokens of that check, a message naming the
\* identifier type of that check, and Retry-After present exactly when the
\* retryAfterSeconds of that check is defined (and then equal to it); no
\* other request gets a 429.
C20_DenialResponse ==
    \A h \in Handlers :
        /\ \A n \in 1..Len(reqs[h].results) :
              ~reqs[h].results[n].allowed
                 => /\ n = Len(reqs[h].results)
                    /\ reqs[h].pc = "blocked"
                    /\ reqs[h].status = 429
                    /\ reqs[h].headers.remaining = {0}
                    /\ reqs[h].headers.limit = {reqs[h].checks[n].config.maxTokens}
                    /\ reqs[h].body.identifierType = reqs[h].checks[n].identifierType
                    /\ reqs[h].body.identifierType \in {"user", "ip"}
                    /\ reqs[h].headers.retryAfter = reqs[h].results[n].retryAfterSeconds
        /\ (reqs[h].status = 429 \/ reqs[h].pc = "blocked")
              => /\ Len(reqs[h].results) >= 1
                 /\ ~reqs[h].results[Len(reqs[h].results)].allowed

\* a request of a user denied by its per-user check, the first of its two
\* checks: the 429 names user and carries the limit of the per-user check
C20_Witness ==
    \E h \in Handlers :
        /\ reqs[h].status = 429
        /\ Len(reqs[h].checks) = 2
        /\ Len(reqs[h].results) = 1
        /\ reqs[h].body.identifierType = "user"
        /\ reqs[h].headers.limit = {reqs[h].checks[1].config.maxTokens}
        /\ reqs[h].headers.remaining = {0}
        /\ reqs[h].headers.retryAfter # {}

---------------------------------------------------------------------------
\* C21: a request that is allowed and whose last check was answered by the
\* store carries X-RateLimit-Remaining strictly below X-RateLimit-Limit:
\* the allowed consume has taken one whole token from a bucket that holds
\* at most maxTokens.  (The limit is held in quanta, the remaining count in
\* whole tokens.)
C21_RemainingBelowLimit ==
    \A h \in DOMAIN reqs :
        LET r == reqs[h]
        IN  (r.pc = "next" /\ Len(r.results) > 0 /\ ~r.results[Len(r.results)].failed)
                => /\ r.headers.limit # {} /\ r.headers.remaining # {}
                   /\ \A l \in r.headers.limit, m \in r.headers.remaining :
                          /\ m * TokenUnit < l
                          /\ m >= 0

\* a request allowed on a bucket created for it: one below the limit
C21_Witness ==
    \E h \in DOMAIN reqs :
        LET r == reqs[h]
        IN  /\ r.pc = "next" /\ Len(r.results) > 0 /\ ~r.results[Len(r.results)].failed
            /\ \E l \in r.headers.limit, m \in r.headers.remaining :
                   (m + 1) * TokenUnit = l

---------------------------------------------------------------------------
\* The rule of resolution as the specification words it: the entry whose key
\* is the path; else the first entry in declaration order, default aside,
\* with as many segments as the path, each starting with ":" or equal to
\* the path's segment; else the default entry.
Range(f) == {f[x] : x \in DOMAIN f}

SegmentsMatch(path, pattern) ==
    /\ Len(pattern) = Len(path)
    /\ \A i \in 1..Len(pattern) : StartsWithColon(pattern[i]) \/ pattern[i] = path[i]

Resolved(path) ==
    LET keyed   == {e \in Range(registry) : e.pattern = path}
        fitting == {i \in 1..Len(registry) :
                       /\ registry[i].pattern # <<"default">>
                       /\ SegmentsMatch(path, registry[i].pattern)}
        named   == {e \in Range(registry) : e.pattern = <<"default">>}
    IN  IF keyed # {} THEN keyed
        ELSE IF fitting # {}
             THEN {registry[i] : i \in {j \in fitting : \A k \in fitting : j <= k}}
        ELSE named

\* C22: every request the middleware takes is checked under the limits of
\* the entry the rule of resolution names for its path, and there is always
\* exactly one such entry; /api/posts/42/upvote is checked under the entry
\* /api/posts/:postId/upvote (30 tokens per user, no per-IP limit) and
\* /api/posts/42/comments and /api/other under the default entry
\* (100 per user, 200 per IP).
C22_ConfigResolution ==
    \A h \in DOMAIN reqs :
        reqs[h].pc # "idle" =>
            LET r    == reqs[h]
                path == r.req.path
                cfg  == getEndpointConfig(path)
            IN  /\ Cardinality(Resolved(path)) = 1
                /\ \A e \in Resolved(path) :
                       /\ cfg = [perUser |-> e.perUser, perIP |-> e.perIP]
                       /\ \A n \in 1..Len(r.checks) :
                              r.checks[n].config \in
                                  (IF r.checks[n].identifierType = "user"
                                   THEN e.perUser ELSE e.perIP)
                /\ path = <<"", "api", "posts", "42", "upvote">>
                       => cfg = [perUser |-> {Cfg(30, 10, 60)}, perIP |-> {}]
                /\ path \in {<<"", "api", "posts", "42", "comments">>, <<"", "api", "other">>}
                       => cfg = [perUser |-> {Cfg(100, 50, 60)}, perIP |-> {Cfg(200, 100, 60)}]
                /\ path = <<"", "api", "posts">>
                       => cfg = [perUser |-> {Cfg(10, 2, 60)}, perIP |-> {Cfg(20, 5, 60)}]

\* an upvote has been checked under its pattern's limit, and a request for
\* the comments of the same post under the default limits
C22_Witness ==
    /\ \E n \in 1..Len(log) :
           /\ log[n].id = <<"user", "123", <<"", "api", "posts", "42", "upvote">>>>
           /\ log[n].cfg = Cfg(30, 10, 60)
    /\ reqs[1].req = CommentsReq("123") /\ reqs[1].pc = "next"
    /\ reqs[1].headers.limit = {200 * TokenUnit}

---------------------------------------------------------------------------
\* C23 (login quota as documented): among the requests to /api/auth/login
\* from one client address whose times lie within any 300 seconds, at most
\* 5 are allowed.
C23_LoginQuota ==
    \A a \in 1..Len(log) : \A b \in a..Len(log) :
        ( /\ log[a].id[1] = "ip"
          /\ log[a].id[3] = <<"", "api", "auth", "login">>
          /\ log[b].now - log[a].now < 300 )
        => Cardinality({n \in a..b : log[n].id = log[a].id /\ log[n].allowed}) <= 5

---------------------------------------------------------------------------
\* C24 (bucket lifecycle): a consume answered by the store, allowed or
\* denied, leaves under its key the tokens it computed, lastRefill = now and
\* an expiry windowSeconds after the time of the store; a consume that finds
\* no bucket, because none was ever made or because it was deleted, starts
\* from maxTokens; a bucket is deleted exactly when windowSeconds have passed
\* since the last consume on it, and by nothing else.
C24_Lifecycle ==
    [][/\ \A c \in DOMAIN calls :
              (calls[c].pc = "sent" /\ calls'[c].pc = "returned" /\ ~calls'[c].failed)
              => LET call  == calls[c]
                     k     == call.key
                     found == IF k \in DOMAIN store
                              THEN Min(call.cfg.maxTokens,
                                       store[k].tokens
                                           + (call.now - store[k].lastRefill) * call.cfg.refillRate)
                              ELSE call.cfg.maxTokens
                     taken == IF calls'[c].verdict.allowed THEN TokenUnit ELSE 0
                 IN  /\ k \in DOMAIN store'
                     /\ store'[k].tokens = found - taken
                     /\ store'[k].lastRefill = call.now
                     /\ store'[k].expireAt = clock + call.cfg.windowSeconds
                     /\ \A j \in DOMAIN store \ {k} : j \in DOMAIN store' /\ store'[j] = store[j]
       /\ \A k \in DOMAIN store :
              /\ store[k].expireAt > clock
              /\ k \notin DOMAIN store' <=> store[k].expireAt <= clock'
       /\ \A k \in DOMAIN store' : store'[k].expireAt > clock']_vars

\* a bucket was emptied, a consume on it was denied, the bucket was deleted
\* after its window, and a later consume started from maxTokens again
C24_Witness ==
    \E m \in 1..Len(log) : \E n \in (m + 1)..Len(log) :
        /\ log[m].key = log[n].key
        /\ ~log[m].allowed
        /\ log[n].fresh
        /\ log[n].allowed
        /\ log[n].tokens = log[n].cfg.maxTokens - TokenUnit
        /\ log[n].key \in DOMAIN store

---------------------------------------------------------------------------
\* the per-IP check of a request in progress, if it has one
IPChecks(r) == {r.checks[n] : n \in {m \in 1..Len(r.checks) : r.checks[m].identifierType = "ip"}}

\* C25 (client IP extraction): the address a request is metered under is
\* the trimmed first entry of x-forwarded-for when the header is there, else
\* x-real-ip when it is there, else the address of the peer (req.ip, then
\* that of the socket), else "unknown"; there always is one; and consumes
\* of requests whose first forwarded entries differ go to different keys of
\* the store, so that the second client starts on a full bucket.
C25_ClientIP ==
    /\ \A h \in DOMAIN reqs :
           reqs[h].pc # "idle" =>
               LET r   == reqs[h]
                   req == r.req
                   ip  == IF req.forwarded \notin {{}, {<<"">>}}
                              THEN {Trim(f[1]) : f \in req.forwarded}
                          ELSE IF req.realIP \notin {{}, {""}} THEN req.realIP
                          ELSE IF req.ip \notin {{}, {""}} THEN req.ip
                          ELSE IF req.remoteAddress \notin {{}, {""}} THEN req.remoteAddress
                          ELSE {"unknown"}
               IN  /\ Cardinality(ip) = 1
                   /\ \A c \in IPChecks(r) : c.identifier \in {<<"ip", a, req.path>> : a \in ip}
                   /\ req = LoginVia({<<"192.168.1.1", " 10.0.0.1">>}, {})
                          => ip = {"192.168.1.1"}
                   /\ req = LoginVia({<<"192.168.1.2", " 10.0.0.1">>}, {})
                          => ip = {"192.168.1.2"}
                   /\ req = LoginVia({<<" 192.168.1.1 ">>}, {"192.168.1.100"})
                          => ip = {"192.168.1.1"}
                   /\ req = LoginVia({}, {"192.168.1.100"}) => ip = {"192.168.1.100"}
                   /\ req = LoginReq => ip = {"127.0.0.1"}
                   /\ req = LoginFrom({"::1"}) => ip = {"::1"}
                   /\ req = LoginFrom({}) => ip = {"unknown"}
    /\ \A m \in 1..Len(log) : \A n \in 1..Len(log) :
           (log[m].id[1] = "ip" /\ log[n].id[1] = "ip" /\ log[m].id[2] # log[n].id[2])
               => log[m].key # log[n].key
    /\ \A n \in 1..Len(log) :
           (log[n].id[1] = "ip" /\ \A m \in 1..(n - 1) : log[m].id[2] # log[n].id[2])
               => log[n].fresh /\ log[n].tokens = log[n].cfg.maxTokens - TokenUnit

\* the client behind 192.168.1.1 has used up its logins and been denied;
\* the login of the client behind 192.168.1.2, through the same proxy, is
\* allowed on a bucket of its own
C25_Witness ==
    \E m \in 1..Len(log) : \E n \in (m + 1)..Len(log) :
        /\ log[m].id = <<"ip", "192.168.1.1", LoginReq.path>>
        /\ ~log[m].allowed
        /\ log[n].id = <<"ip", "192.168.1.2", LoginReq.path>>
        /\ log[n].fresh /\ log[n].allowed /\ log[n].remaining = 4

---------------------------------------------------------------------------
---------------------------------------------------------------------------
\* C27 (missing default is a startup failure): with a registry that has no
\* entry "default" the limiter does not come up, and no request is ever
\* processed: none is taken by the middleware, none reaches the store, none
\* is passed on, answered or failed.
C27_NoRequestProcessed ==
    (\A i \in 1..Len(registry) : registry[i].pattern # <<"default">>)
        => /\ \A h \in DOMAIN reqs : reqs[h].pc = "idle" /\ reqs[h].nextCalls = 0
           /\ \A c \in DOMAIN calls : calls[c].pc = "idle"
           /\ log = <<>>
           /\ store = <<>>

---------------------------------------------------------------------------
\* the consumes a..b for the identifier of a, in the order the store ran them
Run(a, b) == {n \in a..b : log[n].id = log[a].id}

\* their now values do not decrease
NonDecreasing(a, b) ==
    \A m \in Run(a, b) : \A n \in Run(a, b) : m <= n => log[m].now <= log[n].now

\* all of them found the record that consume a left or made
OneRecord(a, b) == \A n \in Run(a, b) : n > a => ~log[n].fresh

AllowedIn(a, b) == Cardinality({n \in Run(a, b) : log[n].allowed})

\* C28 as stated (rate bound, expiry included): of consumes on one bucket
\* with non-decreasing now, those allowed within an interval of T seconds
\* number at most maxTokens + T * refillRate.
C28_RateBound ==
    \A a \in 1..Len(log) : \A b \in a..Len(log) :
        (log[b].id = log[a].id /\ NonDecreasing(a, b))
            => AllowedIn(a, b) * TokenUnit
                   <= log[a].cfg.maxTokens + (log[b].now - log[a].now) * log[a].cfg.refillRate

\* C28 (rate bound, within the life of one record): of consumes with
\* non-decreasing now on one bucket record, between its creation and its
\* expiry, those allowed within an interval of T seconds number at most
\* maxTokens + T * refillRate.
C28_RateBoundPerRecord ==
    \A a \in 1..Len(log) : \A b \in a..Len(log) :
        (log[b].id = log[a].id /\ NonDecreasing(a, b) /\ OneRecord(a, b))
            => AllowedIn(a, b) * TokenUnit
                   <= log[a].cfg.maxTokens + (log[b].now - log[a].now) * log[a].cfg.refillRate

\* the bound is met: a full bucket of two tokens refilled at one per second
\* has allowed three consumes within one second, and its record lived on
C28_Witness ==
    /\ Len(log) = 3
    /\ OneRecord(1, 3) /\ NonDecreasing(1, 3)
    /\ \A n \in 1..3 : log[n].allowed
    /\ log[1].cfg.maxTokens = 2 * TokenUnit /\ log[1].cfg.refillRate = TokenUnit
    /\ log[3].now = log[1].now + 1

---------------------------------------------------------------------------
\* the now values of all consumes up to b for the identifier of a do not
\* decrease
NonDecreasingTo(a, b) ==
    \A m \in 1..b : \A n \in m..b :
        (log[m].id = log[a].id /\ log[n].id = log[a].id) => log[m].now <= log[n].now

\* the consumes strictly between a and b for the identifier of a were denied
DeniedBetween(a, b) == \A n \in Run(a, b) : (a < n /\ n < b) => ~log[n].allowed

\* what consume b finds if nothing was consumed since consume a: the tokens
\* a left, refilled over the time from a to b, capped
FoundSince(a, b) ==
    Min(log[b].cfg.maxTokens,
        log[a].tokens + (log[b].now - log[a].now) * log[b].cfg.refillRate)

\* C29 as stated (denied attempts cost nothing): with non-decreasing now, a
\* consume that follows consume a on the same bucket, with any number of
\* denied consumes between them, is allowed exactly when the tokens a left,
\* refilled over the time since a, reach one token, and stores what it
\* would have stored had no denied consume happened; a denied consume
\* stores the refilled amount with its fraction and returns its floor.
C29_DeniedCostNothing ==
    \A a \in 1..Len(log) : \A b \in (a + 1)..Len(log) :
        (log[b].id = log[a].id /\ NonDecreasingTo(a, b) /\ DeniedBetween(a, b))
            => /\ log[b].allowed <=> FoundSince(a, b) >= TokenUnit
               /\ log[b].tokens = FoundSince(a, b) - (IF log[b].allowed THEN TokenUnit ELSE 0)
               /\ ~log[b].allowed => log[b].remaining = Floor(log[b].tokens, TokenUnit)

\* C29 (denied attempts cost nothing, while the record lives): the same,
\* for consumes that found the record consume a left, none of them after an
\* expiry.
C29_DeniedCostNothingPerRecord ==
    \A a \in 1..Len(log) : \A b \in (a + 1)..Len(log) :
        (log[b].id = log[a].id /\ NonDecreasingTo(a, b) /\ DeniedBetween(a, b)
             /\ OneRecord(a, b))
            => /\ log[b].allowed <=> FoundSince(a, b) >= TokenUnit
               /\ log[b].tokens = FoundSince(a, b) - (IF log[b].allowed THEN TokenUnit ELSE 0)
               /\ ~log[b].allowed => log[b].remaining = Floor(log[b].tokens, TokenUnit)

\* an allowed consume emptied the bucket, the next was denied and stored
\* half a token (returned as 0), and the one after it was allowed
C29_Witness ==
    \E a \in 1..Len(log) :
        /\ a + 2 <= Len(log)
        /\ OneRecord(a, a + 2) /\ NonDecreasingTo(a, a + 2)
        /\ log[a].allowed /\ log[a].tokens = 0
        /\ ~log[a + 1].allowed
        /\ log[a + 1].tokens = Half /\ log[a + 1].remaining = 0
        /\ log[a + 2].allowed

---------------------------------------------------------------------------
\* C30 as stated (eventual admission): under every config with maxTokens,
\* refillRate and windowSeconds above 0, an identifier that was denied and
\* whose next consume comes long enough after the denial (the seconds the
\* denial told it to wait, or more) is allowed on that consume.
C30_EventualAdmission ==
    \A p \in 1..Len(log) :
        ( /\ ~log[p].allowed
          /\ log[p].cfg.maxTokens > 0 /\ log[p].cfg.refillRate > 0
          /\ log[p].cfg.windowSeconds > 0
          /\ Succ(p) # 0
          /\ log[Succ(p)].now - log[p].now >= log[p].retry )
        => log[Succ(p)].allowed

\* C30 (eventual admission, for buckets that can hold a token): the same
\* under every config with maxTokens at least 1.
C30_EventualAdmissionOfOne ==
    \A p \in 1..Len(log) :
        ( /\ ~log[p].allowed
          /\ log[p].cfg.maxTokens >= TokenUnit /\ log[p].cfg.refillRate > 0
          /\ log[p].cfg.windowSeconds > 0
          /\ Succ(p) # 0
          /\ log[Succ(p)].now - log[p].now >= log[p].retry )
        => log[Succ(p)].allowed

\* a denial on a bucket that lived on, and the next consume, a second
\* later as the denial said, allowed by the refill
C30_Witness ==
    \E p \in 1..Len(log) :
        /\ ~log[p].allowed
        /\ log[p].retry = 1
        /\ Succ(p) # 0
        /\ log[Succ(p)].now = log[p].now + 1
        /\ ~log[Succ(p)].fresh
        /\ log[Succ(p)].allowed

---------------------------------------------------------------------------
\* C31 (the sentinel is unambiguous): an allowed verdict has
\* tokensRemaining = -1 exactly when the store call failed; an allowed
\* verdict made from an answer of the store has tokensRemaining >= 0.  The
\* same holds of the verdicts the middleware has seen.
C31_Sentinel ==
    /\ \A c \in DOMAIN calls :
           (calls[c].pc = "returned" /\ calls[c].verdict.allowed)
               => /\ calls[c].verdict.tokensRemaining = -1 <=> calls[c].failed
                  /\ ~calls[c].failed => calls[c].verdict.tokensRemaining >= 0
    /\ \A h \in DOMAIN reqs : \A n \in 1..Len(reqs[h].results) :
           reqs[h].results[n].allowed
               => /\ reqs[h].results[n].tokensRemaining = -1 <=> reqs[h].results[n].failed
                  /\ ~reqs[h].results[n].failed => reqs[h].results[n].tokensRemaining >= 0

\* a request whose per-user check failed open (-1) and whose per-IP check
\* took the last token of its bucket (0): both allowed, told apart
C31_Witness ==
    \E h \in DOMAIN reqs :
        /\ Len(reqs[h].results) = 2
        /\ reqs[h].results[1].allowed /\ reqs[h].results[1].failed
        /\ reqs[h].results[1].tokensRemaining = -1
        /\ reqs[h].results[2].allowed /\ ~reqs[h].results[2].failed
        /\ reqs[h].results[2].tokensRemaining = 0

---------------------------------------------------------------------------
\* C32 (short-circuit frame): of the two checks of a request the per-user
\* check is first, and a consume on the per-IP bucket is made for a request
\* only after its per-user check was allowed; a request whose per-user
\* check is denied is answered 429 at once, naming the user: it has made
\* one store call, which touched the per-user key only, the step that
\* answers it changes nothing in the store, and it makes no store call
\* afterwards.
C32_ShortCircuit ==
    [][\A h \in Handlers :
          /\ Len(reqs'[h].checks) = 2
                => /\ reqs'[h].checks[1].identifierType = "user"
                   /\ reqs'[h].checks[2].identifierType = "ip"
          /\ (calls'[h].pc = "sent" /\ calls'[h].identifier[1] = "ip"
                 /\ Len(reqs'[h].checks) = 2)
                => /\ Len(reqs'[h].results) = 1
                   /\ reqs'[h].results[1].identifierType = "user"
                   /\ reqs'[h].results[1].allowed
          /\ Evaluated(h)
                => \A k \in DOMAIN store' \ {calls[h].key} :
                       k \in DOMAIN store /\ store'[k] = store[k]
          /\ (\E n \in 1..Len(reqs'[h].results) :
                   /\ reqs'[h].results[n].identifierType = "user"
                   /\ ~reqs'[h].results[n].allowed)
                => /\ Len(reqs'[h].results) = 1
                   /\ reqs'[h].pc = "blocked"
                   /\ reqs'[h].status = 429
                   /\ reqs'[h].body.identifierType = "user"
                   /\ calls'[h].pc = "idle"
          /\ (reqs[h].pc = "checking" /\ reqs'[h].pc = "blocked")
                => store' = store]_vars

\* a request denied by its per-user check while the bucket of its address
\* holds the one token it held at the start
C32_Witness ==
    \E h \in Handlers :
        /\ reqs[h].pc = "blocked"
        /\ reqs[h].body.identifierType = "user"
        /\ Len(reqs[h].checks) = 2
        /\ Len(reqs[h].results) = 1
        /\ KeyOf(reqs[h].checks[2].identifier) \in DOMAIN store
        /\ store[KeyOf(reqs[h].checks[2].identifier)].tokens = TokenUnit
        /\ store[KeyOf(reqs[h].checks[2].identifier)].lastRefill = StartClock

---------------------------------------------------------------------------
\* the request r has a per-user and a per-IP check, and the store call of
\* its per-user check failed
UserCheckFailedOpen(r) ==
    /\ Len(r.checks) = 2
    /\ Len(r.results) >= 1
    /\ r.results[1].identifierType = "user"
    /\ r.results[1].failed

\* C33 (partial outage): when the store call of the per-user check of a
\* request fails and is resolved allowed, the per-IP check of the request
\* is still made; the request ends only after it, and if the per-IP check
\* is denied the request is answered 429 naming the address and is not
\* passed on.
C33_PartialOutage ==
    \A h \in DOMAIN reqs :
        LET r == reqs[h]
        IN  /\ r.pc # "rejected"
            /\ (calls[h].pc = "returned" /\ calls[h].failed)
                   => (calls[h].verdict.outcome = "return" /\ calls[h].verdict.allowed)
            /\ UserCheckFailedOpen(r)
                   => /\ r.results[1].allowed
                      /\ Len(r.results) = 1
                             => /\ r.pc = "checking"
                                /\ r.idx = 2
                                /\ calls[h].pc \in {"sent", "returned"}
                                /\ calls[h].identifier = r.checks[2].identifier
                                /\ calls[h].identifier[1] = "ip"
                      /\ r.pc \in {"next", "blocked"}
                             => (Len(r.results) = 2 /\ r.results[2].identifierType = "ip")
                      /\ (Len(r.results) = 2 /\ ~r.results[2].allowed)
                             => /\ r.pc = "blocked"
                                /\ r.status = 429
                                /\ r.body.identifierType = "ip"
                                /\ r.nextCalls = 0
                      /\ (Len(r.results) = 2 /\ r.results[2].allowed)
                             => (r.pc = "next" /\ r.nextCalls = 1 /\ r.status # 429)

\* the store call of the per-user check failed, that of the per-IP check
\* was answered and denied, and the request was answered 429
C33_Witness ==
    \E h \in DOMAIN reqs :
        /\ Len(reqs[h].results) = 2
        /\ reqs[h].results[1].identifierType = "user" /\ reqs[h].results[1].failed
        /\ ~reqs[h].results[2].failed /\ ~reqs[h].results[2].allowed
        /\ reqs[h].pc = "blocked" /\ reqs[h].status = 429

---------------------------------------------------------------------------
\* the consume calls handler h has issued for its request so far: those
\* whose verdict it has seen, and the one in flight
Issued(h) ==
    Len(reqs[h].results) + (IF reqs[h].pc = "checking" THEN 1 ELSE 0)

\* handler h is done with its request in one of the two ways: next()
\* called once and no 429, or a 429 sent and next() not called
OneOutcome(h) ==
    LET r == reqs[h]
    IN  \/ r.pc = "next" /\ r.nextCalls = 1 /\ r.status # 429
        \/ r.pc = "blocked" /\ r.nextCalls = 0 /\ r.status = 429

\* C34 (exactly one outcome per request): when every store call is
\* answered or fails, every invocation of the middleware ends, and it ends
\* with next() called once or with one 429 sent, never with both and never
\* with neither; until then it has done neither, and all along it has
\* issued at most one consume for each identifier type, the calls being
\* those of its checks in order, which are of different types.
C34_OneOutcome ==
    /\ [](\A h \in Handlers :
            LET r == reqs[h]
            IN  /\ r.pc \in {"idle", "checking", "next", "blocked"}
                /\ r.pc \in {"next", "blocked"} => OneOutcome(h)
                /\ r.pc \in {"idle", "checking"} => (r.nextCalls = 0 /\ r.status # 429)
                /\ Issued(h) <= Len(r.checks)
                /\ \A i \in 1..Len(r.results) :
                       r.results[i].identifierType = r.checks[i].identifierType
                /\ r.pc = "checking" =>
                       /\ r.idx = Issued(h)
                       /\ calls[h].pc \in {"sent", "returned"}
                       /\ calls[h].identifier = r.checks[r.idx].identifier
                /\ \A i, j \in 1..Len(r.checks) :
                       r.checks[i].identifierType = r.checks[j].identifierType => i = j)
    /\ \A h \in Handlers : (reqs[h].pc = "checking") ~> OneOutcome(h)
    /\ [][\A h \in Handlers : OneOutcome(h) => OneOutcome(h)']_vars

\* a request ended blocked by its second check after a failed store call,
\* and another ended with next() after both of its checks
C34_Witness ==
    \E h, g \in Handlers :
        /\ reqs[h].pc = "blocked" /\ Len(reqs[h].results) = 2
        /\ reqs[h].results[1].failed
        /\ reqs[g].pc = "next" /\ Len(reqs[g].results) = 2

---------------------------------------------------------------------------
\* the identifier of the per-user check of user 123 upvoting a post
UpvoteId(postId) == <<"user", "123", UpvoteOf(postId, "123").path>>

\* C35 (buckets keyed by the concrete path): /api/posts/1/upvote and
\* /api/posts/2/upvote resolve to the one registry entry
\* /api/posts/:postId/upvote and are checked under its limits, yet the
\* upvotes of one user to them are counted in two buckets, each under the
\* key of its own path: the first upvote of post 2 makes a new bucket and
\* leaves 29 of 30 tokens, every upvote of post 2 is allowed with at least
\* 30 less the upvotes of post 2 so far remaining, whatever the upvotes of
\* post 1 did, also after upvotes of post 1 were denied; and the store
\* holds one record for each path used.
C35_KeyedByPath ==
    LET one == UpvoteId("1")
        two == UpvoteId("2")
    IN  /\ Resolved(one[3]) = Resolved(two[3])
        /\ \A e \in Resolved(one[3]) :
               /\ e.pattern \notin {one[3], two[3]}
               /\ e.perUser = {UpvoteConfig}
        /\ UpvoteConfig.maxTokens = 30 * TokenUnit
        /\ \A n \in 1..Len(log) :
               /\ log[n].id \in {one, two}
               /\ log[n].cfg = UpvoteConfig
               /\ log[n].key[Len(log[n].key)] = log[n].id[3]
               /\ log[n].key \in DOMAIN store
               /\ log[n].id = two =>
                      /\ log[n].allowed
                      /\ log[n].remaining >= 30 - Cardinality(EntriesFor(two, n))
                      /\ log[n].fresh <=> EntriesFor(two, n) = {n}
                      /\ log[n].fresh => log[n].remaining = 29
        /\ KeyOf(one) # KeyOf(two)
        /\ DOMAIN store \subseteq {KeyOf(one), KeyOf(two)}

\* an upvote of post 1 was denied, its bucket empty, and the upvote of
\* post 2 that followed was allowed with 29 tokens left
C35_Witness ==
    \E m, n \in 1..Len(log) :
        /\ m < n
        /\ log[m].id = UpvoteId("1") /\ ~log[m].allowed /\ log[m].remaining = 0
        /\ log[n].id = UpvoteId("2") /\ log[n].allowed /\ log[n].remaining = 29
        /\ Bucket(KeyOf(UpvoteId("1"))).tokens < TokenUnit

---------------------------------------------------------------------------
RECURSIVE Kept(_, _)
\* the record of key k after the first n consumes of the history on a store
\* that never deletes a record
Kept(k, n) ==
    IF n = 0 THEN [exists |-> FALSE, bucket |-> NoBucket]
    ELSE LET before == Kept(k, n - 1)
         IN  IF log[n].key # k THEN before
             ELSE [exists |-> TRUE,
                   bucket |-> LuaScript(before.exists, before.bucket, log[n].cfg,
                                        log[n].now, log[n].at).bucket]

\* the reply to consume n of the history on the store that never deletes
KeptReply(n) ==
    LET before == Kept(log[n].key, n - 1)
    IN  LuaScript(before.exists, before.bucket, log[n].cfg, log[n].now, log[n].at).reply

\* the reply consume n got
GotReply(n) ==
    [allowed |-> IF log[n].allowed THEN 1 ELSE 0, tokens |-> log[n].remaining,
     retry_after |-> log[n].retry]

\* up to consume n, the store ran every script for the key of n no later
\* after the now it was given than the window less the time a full refill
\* takes
Prompt(n) ==
    \A m \in 1..n :
        log[m].key = log[n].key =>
            /\ log[m].at >= log[m].now
            /\ log[m].at - log[m].now
                  <= log[m].cfg.windowSeconds - Ceil(log[m].cfg.maxTokens, log[m].cfg.refillRate)

\* every shipped config refills a bucket fully within its window
WindowsRefill ==
    \A cfg \in ShippedConfigs : cfg.windowSeconds * cfg.refillRate >= cfg.maxTokens

---------------------------------------------------------------------------
\* the checks executed so far: handler and position of each verdict the
\* middleware has seen
Executed == {x \in (DOMAIN reqs) \X {1, 2} : x[2] <= Len(reqs[x[1]].results)}

VerdictAt(x) == reqs[x[1]].results[x[2]]

\* the count of a counter for the labels
Counted(counter, labels) == IF labels \in DOMAIN counter THEN counter[labels] ELSE 0

\* the observations of the histogram for the labels
Observed(labels) ==
    IF labels \in DOMAIN metrics.rateLimitHistogram
    THEN metrics.rateLimitHistogram[labels].count ELSE 0

\* C37 (metrics consistency): for every identifier type and path,
\* rate_limit_requests_total counts under result = allowed the executed
\* checks whose verdict was allowed and under result = blocked those whose
\* verdict was denied, each once; rate_limit_blocked_total equals the
\* count under result = blocked; and rate_limit_tokens_remaining has one
\* observation for each executed check with tokensRemaining >= 0, in the
\* bucket of its value, and none for the others (the verdict of a failed
\* store call, -1, and a verdict of a bucket below zero).  No label values
\* are counted but those of executed checks.
C37_MetricsConsistent ==
    LET requests == metrics.rateLimitCounter
        blocked  == metrics.rateLimitBlockedCounter
        tokens   == metrics.rateLimitHistogram
        Labels(x) == <<VerdictAt(x).identifierType, reqs[x[1]].req.path>>
    IN  /\ \A x \in Executed :
               /\ Labels(x) \o <<ResultLabel(VerdictAt(x))>> \in DOMAIN requests
               /\ ~VerdictAt(x).allowed => Labels(x) \in DOMAIN blocked
               /\ VerdictAt(x).tokensRemaining >= 0 =>
                      /\ Labels(x) \in DOMAIN tokens
                      /\ BucketOf(VerdictAt(x).tokensRemaining) \in DOMAIN tokens[Labels(x)].buckets
        /\ \A l \in DOMAIN requests :
               /\ l[3] \in {"allowed", "blocked"}
               /\ requests[l] = Cardinality({x \in Executed :
                                    /\ Labels(x) = <<l[1], l[2]>>
                                    /\ VerdictAt(x).allowed <=> l[3] = "allowed"})
        /\ \A l \in DOMAIN blocked :
               blocked[l] = Counted(requests, l \o <<"blocked">>)
        /\ \A l \in DOMAIN tokens :
               LET seen == {x \in Executed : /\ Labels(x) = l
                                             /\ VerdictAt(x).tokensRemaining >= 0}
               IN  /\ tokens[l].count = Cardinality(seen)
                   /\ \A b \in DOMAIN tokens[l].buckets :
                          tokens[l].buckets[b] =
                             Cardinality({x \in seen : BucketOf(VerdictAt(x).tokensRemaining) = b})

\* two requests to /api/posts of the user were checked: the per-user
\* checks counted twice as allowed and observed once, the store call of
\* one having failed, and the per-IP checks counted once as allowed and
\* once as blocked, with one in the blocked total
C37_Witness ==
    LET path == <<"", "api", "posts">>
    IN  /\ Counted(metrics.rateLimitCounter, <<"user", path, "allowed">>) = 2
        /\ Observed(<<"user", path>>) = 1
        /\ Counted(metrics.rateLimitCounter, <<"ip", path, "allowed">>) = 1
        /\ Counted(metrics.rateLimitCounter, <<"ip", path, "blocked">>) = 1
        /\ Counted(metrics.rateLimitBlockedCounter, <<"ip", path>>) = 1
        /\ Observed(<<"ip", path>>) = 2

====
